---------------------------- MODULE Spec2Model ----------------------------
(***************************************************************************)
(* Model of the FUSE client of remote_file_system: the dispatcher          *)
(* RemoteFS (src/client/src/unix/remote_fs.rs), the caching HTTP adapter   *)
(* RemoteClient (src/client/src/remote_client.rs) and the path helpers of  *)
(* src/client/src/types.rs, run against a model of the file server.        *)
(*                                                                         *)
(* A remote path "d/a" is the sequence <<"d", "a">> of its components; the *)
(* empty path is <<>>.  File contents are sequences of bytes.  Time is the *)
(* monotonic clock in seconds.                                             *)
(*                                                                         *)
(* Every callback is an operator from its arguments and the current state  *)
(* to the state it leaves, its reply, the HTTP requests it sent and the    *)
(* cache entries it served; the actions commit that state.  The properties *)
(* are checked on every reachable state, about what each callback would    *)
(* reply there for every input, and on every step, about what a callback   *)
(* replies in the state another one left.                                  *)
(***************************************************************************)
EXTENDS Integers, Sequences, FiniteSets, TLC

VARIABLES
    inode_counter,    \* RemoteFS.inode_counter
    inode_to_path,    \* RemoteFS.inode_to_path
    path_to_inode,    \* RemoteFS.path_to_inode
    write_buffers,    \* RemoteFS.write_buffers : fh -> [file, path, dirty]
    fh_counter,       \* RemoteFS.fh_counter
    dir_cache,        \* RemoteClient.dir_cache : path -> [entries, cached_at]
    file_cache,       \* RemoteClient.file_cache : path -> [data, cached_at]
    file_cache_size,  \* RemoteClient.file_cache_size
    cache_config,     \* RemoteClient.cache_config
    now,              \* the monotonic clock (Instant::now)
    srv,              \* the file server: path -> [is_dir, data]
    open_files,       \* the kernel's table of the handles it was given: fh -> ino
    contexts,         \* WinFSP's table of the FileCtx it was given: id -> FileCtx
    unsaved,          \* observer: the ids of the FileCtx written or resized since
                      \* their bytes were last uploaded
    par,              \* the WinFSP callbacks in progress on parallel threads, and
                      \* the owner of the Mutex around the RemoteClient
    calc,             \* the call of fetch_range whose range is being computed
    track             \* observer of write / flush / rename sequences

vars == <<inode_counter, inode_to_path, path_to_inode, write_buffers, fh_counter,
          dir_cache, file_cache, file_cache_size, cache_config, now, srv,
          open_files, contexts, unsaved, par, calc, track>>

---------------------------------------------------------------------------
(* Bounds of the model. *)

MaxLen == 2          \* longest file, in bytes
MaxByte == 1         \* written bytes are 1..MaxByte; 0 is the byte of a hole
MaxDepth == 1        \* longest path, in components
MaxTime == 1         \* the clock stops here
MaxTtl == 1          \* the TTLs given on the command line, in seconds
MaxCacheMb == 1      \* --max-cache-mb
BytesPerMb == 2      \* bytes in a "megabyte" of cache budget (scaled down)

NameOrder == <<"a", "b">>       \* the order the server lists names in
Root == <<>>

Min(x, y) == IF x <= y THEN x ELSE y

WriteData == UNION {[1..n -> 1..MaxByte] : n \in 1..MaxLen}

(* HashMap::insert / HashMap::remove on a map held as a function. *)
MapPut(m, k, v) == [x \in (DOMAIN m) \cup {k} |-> IF x = k THEN v ELSE m[x]]
MapDel(m, k) == [x \in (DOMAIN m) \ {k} |-> m[x]]
EmptyMap == [x \in {} |-> 0]

---------------------------------------------------------------------------
(* types.rs *)

join_path(parent, name) ==
    IF parent = Root THEN <<name>> ELSE parent \o <<name>>

parent_of(path) ==
    IF Len(path) <= 1 THEN Root ELSE SubSeq(path, 1, Len(path) - 1)

(* path.split('/').last().unwrap_or("") *)
filename_of(path) == IF path = Root THEN "" ELSE path[Len(path)]

(* CacheConfig::from_cli *)
from_cli(no_cache, dir_ttl, file_ttl, max_mb) ==
    IF no_cache
    THEN [dir_ttl |-> 0, file_ttl |-> 0, max_file_cache_bytes |-> 0]
    ELSE [dir_ttl |-> dir_ttl, file_ttl |-> file_ttl,
          max_file_cache_bytes |-> max_mb * BytesPerMb]

---------------------------------------------------------------------------
(* The file server, as the client consumes it. *)

SrvIsDir(s, p) == p = Root \/ (p \in DOMAIN s /\ s[p].is_dir)
SrvIsFile(s, p) == p \in DOMAIN s /\ ~s[p].is_dir
SrvChildren(s, p) == {q \in DOMAIN s : q # Root /\ parent_of(q) = p /\ Len(q) = Len(p) + 1}

SrvEntry(s, p) ==
    [name |-> filename_of(p), is_dir |-> s[p].is_dir,
     size |-> IF s[p].is_dir THEN 0 ELSE Len(s[p].data)]

(* GET /list/{p}: the entries of directory p, in the server's order. *)
SrvList(s, p) ==
    LET present == SelectSeq(NameOrder, LAMBDA n : join_path(p, n) \in DOMAIN s)
    IN  [i \in 1..Len(present) |-> SrvEntry(s, join_path(p, present[i]))]

(* PUT /files/{p} is accepted for a file name inside an existing directory. *)
SrvPutOk(s, p) == p # Root /\ ~SrvIsDir(s, p) /\ SrvIsDir(s, parent_of(p))
SrvPut(s, p, data) == MapPut(s, p, [is_dir |-> FALSE, data |-> data])

(* POST /mkdir/{p} *)
SrvMkdirOk(s, p) == p # Root /\ p \notin DOMAIN s /\ SrvIsDir(s, parent_of(p))
SrvMkdir(s, p) == MapPut(s, p, [is_dir |-> TRUE, data |-> <<>>])

(* DELETE /files/{p}: a file, or an empty directory. *)
SrvDeleteOk(s, p) == p \in DOMAIN s /\ SrvChildren(s, p) = {}
SrvDelete(s, p) == MapDel(s, p)

(* The bytes first..last (inclusive, counted from 0) of data. *)
ByteRange(data, first, last_) ==
    IF first >= Len(data) \/ last_ < first THEN <<>>
    ELSE SubSeq(data, first + 1, Min(last_ + 1, Len(data)))

(* An HTTP request, as the operations log it in reqs. *)
Req(method, path, body, ok) ==
    [method |-> method, path |-> path, body |-> body, ok |-> ok]


---------------------------------------------------------------------------
(* RemoteClient (remote_client.rs).  The client's caches are passed as the *)
(* record rc = [dir_cache, file_cache, file_cache_size]; every operation   *)
(* returns the caches it leaves, its result, the HTTP requests it sent and *)
(* the cache entries it served.                                            *)
(*                                                                         *)
(* A cached_at stamp is an Instant.  The model keeps its whole seconds, in *)
(* cached_at, and for file bodies the order of the instants, in seq: two   *)
(* insertions never share an instant, so seq orders entries as cached_at   *)
(* does in the program.                                                    *)

(* A freshness test that still serves an entry whose age equals the TTL.   *)
FreshAtTtl(cached_at, ttl) == now - cached_at <= ttl

(* cached.cached_at.elapsed() < ttl *)
Fresh(cached_at, ttl) == now - cached_at < ttl

Served(cache, path, cached_at) ==
    [cache |-> cache, path |-> path, age |-> now - cached_at]

(* Keeps seq the rank of each entry in insertion order. *)
Renumber(fc) ==
    [p \in DOMAIN fc |->
        [fc[p] EXCEPT !.seq = Cardinality({q \in DOMAIN fc : fc[q].seq <= fc[p].seq})]]

list_dir(rc, s, path, ok) ==
    IF path \in DOMAIN rc.dir_cache
       /\ Fresh(rc.dir_cache[path].cached_at, cache_config.dir_ttl)
    THEN [rc |-> rc, ok |-> TRUE, entries |-> rc.dir_cache[path].entries,
          reqs |-> <<>>,
          served |-> <<Served("dir", path, rc.dir_cache[path].cached_at)>>]
    ELSE IF ok /\ SrvIsDir(s, path)
    THEN LET entries == SrvList(s, path)
         IN  [rc |-> [rc EXCEPT !.dir_cache =
                         MapPut(@, path, [entries |-> entries, cached_at |-> now])],
              ok |-> TRUE, entries |-> entries,
              reqs |-> <<Req("LIST", path, <<>>, TRUE)>>, served |-> <<>>]
    ELSE [rc |-> rc, ok |-> FALSE, entries |-> <<>>,
          reqs |-> <<Req("LIST", path, <<>>, FALSE)>>, served |-> <<>>]

(* file_cache.iter().min_by_key(|(_, v)| v.cached_at) *)
OldestKey(fc) == CHOOSE k \in DOMAIN fc : \A q \in DOMAIN fc : fc[k].seq <= fc[q].seq

(* The eviction loop of fetch_file, for a body of n bytes. *)
RECURSIVE EvictFor(_, _)
EvictFor(rc, n) ==
    IF rc.file_cache_size + n > cache_config.max_file_cache_bytes
    THEN IF DOMAIN rc.file_cache = {}
         THEN rc
         ELSE LET key == OldestKey(rc.file_cache)
              IN  EvictFor([rc EXCEPT
                               !.file_cache = MapDel(@, key),
                               !.file_cache_size = @ - Len(rc.file_cache[key].data)],
                           n)
    ELSE rc

fetch_file(rc, s, path, ok) ==
    IF path \in DOMAIN rc.file_cache
       /\ Fresh(rc.file_cache[path].cached_at, cache_config.file_ttl)
    THEN [rc |-> rc, ok |-> TRUE, data |-> rc.file_cache[path].data,
          reqs |-> <<>>,
          served |-> <<Served("file", path, rc.file_cache[path].cached_at)>>]
    ELSE IF ok /\ SrvIsFile(s, path)
    THEN LET data == s[path].data
             ev == EvictFor(rc, Len(data))
             entry == [data |-> data, cached_at |-> now,
                       seq |-> Cardinality(DOMAIN rc.file_cache) + 2]
         IN  [rc |-> [ev EXCEPT
                         !.file_cache_size = @ + Len(data),
                         !.file_cache = Renumber(MapPut(@, path, entry))],
              ok |-> TRUE, data |-> data,
              reqs |-> <<Req("GET", path, <<>>, TRUE)>>, served |-> <<>>]
    ELSE [rc |-> rc, ok |-> FALSE, data |-> <<>>,
          reqs |-> <<Req("GET", path, <<>>, FALSE)>>, served |-> <<>>]

(* The server's answer to Range: bytes=first-end.  A range that starts at  *)
(* or past the end of the file is refused (416) or answered empty.         *)
fetch_range(s, path, offset, size, ok, lenient) ==
    LET end == offset + size - 1
        sat == offset < Len(s[path].data) \/ lenient
    IN  IF ok /\ SrvIsFile(s, path) /\ sat
        THEN [ok |-> TRUE, data |-> ByteRange(s[path].data, offset, end),
              reqs |-> <<Req("RANGE", path, <<offset, end>>, TRUE)>>]
        ELSE [ok |-> FALSE, data |-> <<>>,
              reqs |-> <<Req("RANGE", path, <<offset, end>>, FALSE)>>]

upload(s, path, data, ok) ==
    IF ok /\ SrvPutOk(s, path)
    THEN [s |-> SrvPut(s, path, data), ok |-> TRUE,
          reqs |-> <<Req("PUT", path, data, TRUE)>>]
    ELSE [s |-> s, ok |-> FALSE, reqs |-> <<Req("PUT", path, data, FALSE)>>]

(* The body is the first size bytes the reader yields. *)
upload_streamed(s, path, reader, size, ok) ==
    upload(s, path, SubSeq(reader, 1, size), ok)

delete_remote(s, path, ok) ==
    IF ok /\ SrvDeleteOk(s, path)
    THEN [s |-> SrvDelete(s, path), ok |-> TRUE,
          reqs |-> <<Req("DELETE", path, <<>>, TRUE)>>]
    ELSE [s |-> s, ok |-> FALSE, reqs |-> <<Req("DELETE", path, <<>>, FALSE)>>]

mkdir_remote(s, path, ok) ==
    IF ok /\ SrvMkdirOk(s, path)
    THEN [s |-> SrvMkdir(s, path), ok |-> TRUE,
          reqs |-> <<Req("MKDIR", path, <<>>, TRUE)>>]
    ELSE [s |-> s, ok |-> FALSE, reqs |-> <<Req("MKDIR", path, <<>>, FALSE)>>]

(* invalidate that drops the cached body but keeps the cached listings *)
InvalidateBodyOnly(rc, path) ==
    [dir_cache |-> rc.dir_cache,
     file_cache |-> Renumber(MapDel(rc.file_cache, path)),
     file_cache_size |->
        IF path \in DOMAIN rc.file_cache
        THEN rc.file_cache_size - Len(rc.file_cache[path].data)
        ELSE rc.file_cache_size]

invalidate(rc, path) ==
    [dir_cache |-> MapDel(MapDel(rc.dir_cache, parent_of(path)), path),
     file_cache |-> Renumber(MapDel(rc.file_cache, path)),
     file_cache_size |->
        IF path \in DOMAIN rc.file_cache
        THEN rc.file_cache_size - Len(rc.file_cache[path].data)
        ELSE rc.file_cache_size]

cached_file_data(rc, path) ==
    IF path \in DOMAIN rc.file_cache
       /\ Fresh(rc.file_cache[path].cached_at, cache_config.file_ttl)
    THEN [some |-> TRUE, data |-> rc.file_cache[path].data,
          served |-> <<Served("file", path, rc.file_cache[path].cached_at)>>]
    ELSE [some |-> FALSE, data |-> <<>>, served |-> <<>>]

---------------------------------------------------------------------------
(* The path/inode table of RemoteFS, passed as the record                  *)
(* pit = [inode_counter, inode_to_path, path_to_inode].                    *)

inode_path(pit, ino) ==
    IF ino \in DOMAIN pit.inode_to_path
    THEN [some |-> TRUE, path |-> pit.inode_to_path[ino]]
    ELSE [some |-> FALSE, path |-> Root]

(* inode_path(parent).unwrap_or_default() joined with the name *)
child_path(pit, parent, name) ==
    LET parent_path == inode_path(pit, parent).path
    IN  [parent_path |-> parent_path, full |-> join_path(parent_path, name)]

(* alloc_inode handing out the lowest inode number that is not bound *)
AllocLowestFree(pit, path) ==
    IF path \in DOMAIN pit.path_to_inode
    THEN [pit |-> pit, ino |-> pit.path_to_inode[path]]
    ELSE LET free == {n \in 2..(pit.inode_counter + 1) : n \notin DOMAIN pit.inode_to_path}
             ino == CHOOSE n \in free : \A m \in free : n <= m
         IN  [pit |-> [inode_counter |-> IF ino > pit.inode_counter THEN ino
                                         ELSE pit.inode_counter,
                       path_to_inode |-> MapPut(pit.path_to_inode, path, ino),
                       inode_to_path |-> MapPut(pit.inode_to_path, ino, path)],
              ino |-> ino]

(* alloc_inode without the look-up of the path's existing inode *)
AllocAlways(pit, path) ==
    LET ino == pit.inode_counter + 1
    IN  [pit |-> [inode_counter |-> ino,
                  path_to_inode |-> MapPut(pit.path_to_inode, path, ino),
                  inode_to_path |-> MapPut(pit.inode_to_path, ino, path)],
         ino |-> ino]

alloc_inode(pit, path) ==
    IF path \in DOMAIN pit.path_to_inode
    THEN [pit |-> pit, ino |-> pit.path_to_inode[path]]
    ELSE LET ino == pit.inode_counter + 1
         IN  [pit |-> [inode_counter |-> ino,
                       path_to_inode |-> MapPut(pit.path_to_inode, path, ino),
                       inode_to_path |-> MapPut(pit.inode_to_path, ino, path)],
              ino |-> ino]

(* remove_inode falling back to inode 1 when the path has no inode *)
RemoveInodeOrRoot(pit, path) ==
    LET ino == IF path \in DOMAIN pit.path_to_inode THEN pit.path_to_inode[path] ELSE 1
    IN  [pit EXCEPT
            !.path_to_inode = MapDel(@, path),
            !.inode_to_path = MapDel(@, ino)]

remove_inode(pit, path) ==
    IF path \in DOMAIN pit.path_to_inode
    THEN [pit EXCEPT
             !.path_to_inode = MapDel(@, path),
             !.inode_to_path = MapDel(@, pit.path_to_inode[path])]
    ELSE pit

(* "Update inode mapping" at the end of rename *)
rebind(pit, old_path, new_path) ==
    IF old_path \in DOMAIN pit.path_to_inode
    THEN LET ino == pit.path_to_inode[old_path]
         IN  [pit EXCEPT
                 !.path_to_inode = MapPut(MapDel(@, old_path), new_path, ino),
                 !.inode_to_path = MapPut(@, ino, new_path)]
    ELSE pit

(* next_fh returning the counter before the increment *)
NextFhStale(counter) == counter

next_fh(counter) == counter + 1

---------------------------------------------------------------------------
(* The callbacks of RemoteFS (unix/remote_fs.rs).  Each returns a record   *)
(* of the state it leaves (pit, rc, s, wb, fhc), its reply, the HTTP       *)
(* requests it sent and the cache entries it served.                       *)

PIT == [inode_counter |-> inode_counter, inode_to_path |-> inode_to_path,
        path_to_inode |-> path_to_inode]
RC == [dir_cache |-> dir_cache, file_cache |-> file_cache,
       file_cache_size |-> file_cache_size]

NoReply == [code |-> "ok", data |-> <<>>, ino |-> 0, size |-> 0, kind |-> "",
            fh |-> 0, entries |-> <<>>]
Error(code) == [NoReply EXCEPT !.code = code]

(* make_attr: the inode, size and kind of an attribute reply *)
make_attr(ino, size, kind) ==
    [NoReply EXCEPT !.ino = ino, !.size = size, !.kind = kind]

KindOf(entry) == IF entry.is_dir THEN "Directory" ELSE "RegularFile"

Base == [pit |-> PIT, rc |-> RC, s |-> srv, wb |-> write_buffers,
         fhc |-> fh_counter, reply |-> NoReply, reqs |-> <<>>, served |-> <<>>]

(* entries.iter().find(|e| e.name == name) *)
FindEntry(entries, name) ==
    LET hits == {i \in 1..Len(entries) : entries[i].name = name}
    IN  IF hits = {} THEN [some |-> FALSE, entry |-> [name |-> name, is_dir |-> FALSE, size |-> 0]]
        ELSE [some |-> TRUE,
              entry |-> entries[CHOOSE i \in hits : \A j \in hits : i <= j]]

lookup(parent, name, ok) ==
    LET cp == child_path(PIT, parent, name)
        ls == list_dir(RC, srv, cp.parent_path, ok)
        found == FindEntry(ls.entries, name)
    IN  IF ls.ok /\ found.some
        THEN LET al == alloc_inode(PIT, cp.full)
             IN  [Base EXCEPT !.pit = al.pit, !.rc = ls.rc,
                              !.reply = make_attr(al.ino, found.entry.size, KindOf(found.entry)),
                              !.reqs = ls.reqs, !.served = ls.served]
        ELSE [Base EXCEPT !.rc = ls.rc, !.reply = Error("ENOENT"),
                          !.reqs = ls.reqs, !.served = ls.served]

getattr(ino, ok) ==
    IF ino = 1 THEN [Base EXCEPT !.reply = make_attr(1, 0, "Directory")]
    ELSE LET ip == inode_path(PIT, ino)
         IN  IF ip.some
             THEN LET ls == list_dir(RC, srv, parent_of(ip.path), ok)
                      found == FindEntry(ls.entries, filename_of(ip.path))
                  IN  IF ls.ok /\ found.some
                      THEN [Base EXCEPT !.rc = ls.rc,
                                        !.reply = make_attr(ino, found.entry.size, KindOf(found.entry)),
                                        !.reqs = ls.reqs, !.served = ls.served]
                      ELSE [Base EXCEPT !.rc = ls.rc, !.reply = Error("ENOENT"),
                                        !.reqs = ls.reqs, !.served = ls.served]
             ELSE [Base EXCEPT !.reply = Error("ENOENT")]

(* The loop of readdir over the listing: allocates each child's inode and  *)
(* adds its row at offset i + 3.                                           *)
RECURSIVE ReaddirRows(_, _, _, _), ReaddirRowsFresh(_, _, _, _)
(* The rows of readdir with a new inode for every entry on every call *)
ReaddirRowsFresh(pit, parent_path, entries, i) ==
    IF i > Len(entries) THEN [pit |-> pit, rows |-> <<>>]
    ELSE LET al == AllocAlways(pit, join_path(parent_path, entries[i].name))
             rest == ReaddirRowsFresh(al.pit, parent_path, entries, i + 1)
         IN  [pit |-> rest.pit,
              rows |-> <<[ino |-> al.ino, offset |-> i + 2, kind |-> KindOf(entries[i]),
                          name |-> entries[i].name]>> \o rest.rows]

ReaddirRows(pit, parent_path, entries, i) ==
    IF i > Len(entries) THEN [pit |-> pit, rows |-> <<>>]
    ELSE LET al == alloc_inode(pit, join_path(parent_path, entries[i].name))
             rest == ReaddirRows(al.pit, parent_path, entries, i + 1)
         IN  [pit |-> rest.pit,
              rows |-> <<[ino |-> al.ino, offset |-> i + 2, kind |-> KindOf(entries[i]),
                          name |-> entries[i].name]>> \o rest.rows]

readdir(ino, offset, ok) ==
    LET parent_path == inode_path(PIT, ino).path
    IN  IF offset = 0
        THEN LET ls == list_dir(RC, srv, parent_path, ok)
                 dots == <<[ino |-> ino, offset |-> 1, kind |-> "Directory", name |-> "."],
                           [ino |-> ino, offset |-> 2, kind |-> "Directory", name |-> ".."]>>
                 rr == ReaddirRows(PIT, parent_path, ls.entries, 1)
             IN  IF ls.ok
                 THEN [Base EXCEPT !.pit = rr.pit, !.rc = ls.rc,
                                   !.reply = [NoReply EXCEPT !.entries = dots \o rr.rows],
                                   !.reqs = ls.reqs, !.served = ls.served]
                 ELSE [Base EXCEPT !.reply = [NoReply EXCEPT !.entries = dots],
                                   !.reqs = ls.reqs]
        ELSE Base

open(ino, access, truncate, ok) ==
    LET fh == next_fh(fh_counter)
        writable == access = "O_WRONLY" \/ access = "O_RDWR"
        ip == inode_path(PIT, ino)
        opened == [NoReply EXCEPT !.fh = fh]
    IN  IF (writable \/ truncate) /\ ip.some
        THEN IF ~truncate
             THEN LET ff == fetch_file(RC, srv, ip.path, ok)
                      tmp == IF ff.ok THEN ff.data ELSE <<>>
                  IN  [Base EXCEPT !.fhc = fh, !.rc = ff.rc, !.reply = opened,
                                   !.wb = MapPut(write_buffers, fh,
                                                 [file |-> tmp, path |-> ip.path, dirty |-> FALSE]),
                                   !.reqs = ff.reqs, !.served = ff.served]
             ELSE [Base EXCEPT !.fhc = fh, !.reply = opened,
                               !.wb = MapPut(write_buffers, fh,
                                             [file |-> <<>>, path |-> ip.path, dirty |-> FALSE])]
        ELSE [Base EXCEPT !.fhc = fh, !.reply = opened]

(* file.seek(SeekFrom::Start(offset)) then file.read(&mut [0; size]) *)
ScratchRead(file, offset, size) ==
    IF offset >= Len(file) THEN <<>>
    ELSE SubSeq(file, offset + 1, Min(offset + size, Len(file)))

(* The slice of a cached body that read replies with *)
CachedSlice(cached, offset, size) ==
    LET start == offset
        end == Min(start + size, Len(cached))
    IN  IF start >= Len(cached) THEN <<>> ELSE SubSeq(cached, start + 1, end)

(* A read that goes to the cache and the server without looking for a     *)
(* write buffer.                                                           *)
ReadPastBuffer(ino, fh, offset, size, io, ok, lenient) ==
    LET ip == inode_path(PIT, ino)
        cached == cached_file_data(RC, ip.path)
        fr == fetch_range(srv, ip.path, offset, size, ok, lenient)
    IN  IF ~ip.some THEN [Base EXCEPT !.reply = Error("ENOENT")]
        ELSE IF cached.some
        THEN [Base EXCEPT !.reply =
                 [NoReply EXCEPT !.data = CachedSlice(cached.data, offset, size)],
                 !.served = cached.served]
        ELSE IF fr.ok
        THEN [Base EXCEPT !.reply = [NoReply EXCEPT !.data = fr.data], !.reqs = fr.reqs]
        ELSE [Base EXCEPT !.reply = Error("ENOENT"), !.reqs = fr.reqs]

(* read keeping the bytes of a range it fetched as the cached body *)
ReadKeepingRange(ino, fh, offset, size, io, ok, lenient) ==
    LET r == ReadPastBuffer(ino, fh, offset, size, io, ok, lenient)
        path == inode_path(PIT, ino).path
        entry == [data |-> r.reply.data, cached_at |-> now,
                  seq |-> Cardinality(DOMAIN file_cache) + 2]
    IN  IF r.reqs # <<>> /\ r.reply.code = "ok"
        THEN [r EXCEPT !.rc.file_cache = Renumber(MapPut(MapDel(@, path), path, entry)),
                       !.rc.file_cache_size = @ + Len(r.reply.data)]
        ELSE r

(* read fetching the whole body through the cache instead of a range *)
ReadThroughCache(ino, fh, offset, size, io, ok, lenient) ==
    LET ip == inode_path(PIT, ino)
        ff == fetch_file(RC, srv, ip.path, ok)
    IN  IF ~ip.some THEN [Base EXCEPT !.reply = Error("ENOENT")]
        ELSE IF ff.ok
        THEN [Base EXCEPT !.rc = ff.rc, !.reqs = ff.reqs, !.served = ff.served,
                          !.reply = [NoReply EXCEPT
                                        !.data = CachedSlice(ff.data, offset, size)]]
        ELSE [Base EXCEPT !.reply = Error("ENOENT"), !.reqs = ff.reqs]

read(ino, fh, offset, size, io, ok, lenient) ==
    IF fh \in DOMAIN write_buffers
    THEN IF io = "ok"
         THEN [Base EXCEPT !.reply =
                  [NoReply EXCEPT !.data = ScratchRead(write_buffers[fh].file, offset, size)]]
         ELSE [Base EXCEPT !.reply = Error("EIO")]
    ELSE LET ip == inode_path(PIT, ino)
         IN  IF ~ip.some THEN [Base EXCEPT !.reply = Error("ENOENT")]
             ELSE LET cached == cached_file_data(RC, ip.path)
                  IN  IF cached.some
                      THEN [Base EXCEPT !.reply =
                               [NoReply EXCEPT !.data = CachedSlice(cached.data, offset, size)],
                               !.served = cached.served]
                      ELSE LET fr == fetch_range(srv, ip.path, offset, size, ok, lenient)
                           IN  IF fr.ok
                               THEN [Base EXCEPT !.reply = [NoReply EXCEPT !.data = fr.data],
                                                 !.reqs = fr.reqs]
                               ELSE [Base EXCEPT !.reply = Error("ENOENT"), !.reqs = fr.reqs]

create(parent, name, ok) ==
    LET full_path == child_path(PIT, parent, name).full
        up == upload(srv, full_path, <<>>, ok)
    IN  IF up.ok
        THEN LET al == alloc_inode(PIT, full_path)
                 fh == next_fh(fh_counter)
             IN  [Base EXCEPT !.s = up.s, !.rc = invalidate(RC, full_path),
                              !.pit = al.pit, !.fhc = fh,
                              !.wb = MapPut(write_buffers, fh,
                                            [file |-> <<>>, path |-> full_path, dirty |-> FALSE]),
                              !.reply = [make_attr(al.ino, 0, "RegularFile") EXCEPT !.fh = fh],
                              !.reqs = up.reqs]
        ELSE [Base EXCEPT !.reply = Error("EIO"), !.reqs = up.reqs]

(* file.seek(SeekFrom::Start(offset)) then file.write_all(data): bytes     *)
(* between the old end of the file and offset read as zero.                *)
(* write_all without the seek: the bytes land at the start of the file *)
WriteAtStart(file, offset, data) ==
    LET n == IF Len(file) >= Len(data) THEN Len(file) ELSE Len(data)
    IN  [i \in 1..n |-> IF i <= Len(data) THEN data[i] ELSE file[i]]

WriteAt(file, offset, data) ==
    LET n == IF Len(file) >= offset + Len(data) THEN Len(file) ELSE offset + Len(data)
    IN  [i \in 1..n |->
            IF i > offset /\ i <= offset + Len(data) THEN data[i - offset]
            ELSE IF i <= Len(file) THEN file[i] ELSE 0]

(* write registering a scratch file for a handle that has none *)
WriteAnyHandle(fh, offset, data, io) ==
    IF io = "ok"
    THEN LET file == IF fh \in DOMAIN write_buffers THEN write_buffers[fh].file ELSE <<>>
             path == IF fh \in DOMAIN write_buffers THEN write_buffers[fh].path ELSE Root
         IN  [Base EXCEPT !.wb = MapPut(write_buffers, fh,
                                    [file |-> WriteAt(file, offset, data),
                                     path |-> path, dirty |-> TRUE]),
                          !.reply = [NoReply EXCEPT !.size = Len(data)]]
    ELSE [Base EXCEPT !.reply = Error("EIO")]

write(fh, offset, data, io) ==
    IF fh \in DOMAIN write_buffers
    THEN IF io = "ok"
         THEN [Base EXCEPT !.wb = [write_buffers EXCEPT
                                      ![fh].file = WriteAt(@, offset, data),
                                      ![fh].dirty = TRUE],
                           !.reply = [NoReply EXCEPT !.size = Len(data)]]
         ELSE [Base EXCEPT !.reply = Error("EIO")]
    ELSE [Base EXCEPT !.reply = Error("EBADF")]

(* The write buffer as flush leaves it once the scratch file is ready to   *)
(* be uploaded (before the upload is attempted).                           *)
FlushPrepared(buf) == [buf EXCEPT !.dirty = FALSE]

(* flush that uploads the scratch file whether it is dirty or not *)
FlushRegardless(fh, io, ok) ==
    IF fh \in DOMAIN write_buffers
    THEN LET buf == write_buffers[fh]
             up == upload_streamed(srv, buf.path, buf.file, Len(buf.file), ok)
         IN  IF up.ok
             THEN [Base EXCEPT !.wb = [write_buffers EXCEPT ![fh] = FlushPrepared(buf)],
                               !.s = up.s, !.rc = invalidate(RC, buf.path),
                               !.reqs = up.reqs]
             ELSE [Base EXCEPT !.reply = Error("EIO"), !.reqs = up.reqs]
    ELSE Base

(* io is what the scratch file does: "seek_err" fails the seek, "io_err"   *)
(* the try_clone, "meta_err" the metadata call, whose size then counts 0.  *)
flush(fh, io, ok) ==
    IF fh \in DOMAIN write_buffers
    THEN LET buf == write_buffers[fh]
         IN  IF ~buf.dirty THEN Base
             ELSE IF io \in {"seek_err", "io_err"} THEN [Base EXCEPT !.reply = Error("EIO")]
             ELSE LET wb1 == [write_buffers EXCEPT ![fh] = FlushPrepared(buf)]
                      size == IF io = "meta_err" THEN 0 ELSE Len(buf.file)
                      up == upload_streamed(srv, buf.path, buf.file, size, ok)
                  IN  IF up.ok
                      THEN [Base EXCEPT !.wb = wb1, !.s = up.s,
                                        !.rc = invalidate(RC, buf.path), !.reqs = up.reqs]
                      ELSE [Base EXCEPT !.wb = wb1, !.reply = Error("EIO"),
                                        !.reqs = up.reqs]
    ELSE Base

(* release that uploads a dirty scratch file before it drops the row *)
ReleaseFlushing(fh) ==
    LET fl == flush(fh, "ok", TRUE)
    IN  [fl EXCEPT !.wb = MapDel(write_buffers, fh), !.reply = NoReply]

release(fh) == [Base EXCEPT !.wb = MapDel(write_buffers, fh)]

mkdir(parent, name, ok) ==
    LET full_path == child_path(PIT, parent, name).full
        mk == mkdir_remote(srv, full_path, ok)
    IN  IF mk.ok
        THEN LET al == alloc_inode(PIT, full_path)
             IN  [Base EXCEPT !.s = mk.s, !.rc = invalidate(RC, full_path),
                              !.pit = al.pit,
                              !.reply = make_attr(al.ino, 0, "Directory"),
                              !.reqs = mk.reqs]
        ELSE [Base EXCEPT !.reply = Error("EIO"), !.reqs = mk.reqs]

unlink(parent, name, ok) ==
    LET full_path == child_path(PIT, parent, name).full
        del == delete_remote(srv, full_path, ok)
    IN  IF del.ok
        THEN [Base EXCEPT !.s = del.s, !.rc = invalidate(RC, full_path),
                          !.pit = remove_inode(PIT, full_path), !.reqs = del.reqs]
        ELSE [Base EXCEPT !.reply = Error("EIO"), !.reqs = del.reqs]

rmdir(parent, name, ok) == unlink(parent, name, ok)

(* rename that updates the inode mapping once the PUT succeeded, before    *)
(* the DELETE                                                              *)
RenameRebindAfterPut(parent, name, newparent, newname, fail) ==
    LET old_path == child_path(PIT, parent, name).full
        new_path == child_path(PIT, newparent, newname).full
        rc1 == invalidate(invalidate(RC, old_path), new_path)
        ff == fetch_file(rc1, srv, old_path, fail # 1)
        up == upload(srv, new_path, ff.data, fail # 2)
        del == delete_remote(up.s, old_path, fail # 3)
    IN  IF ~ff.ok
        THEN [Base EXCEPT !.rc = ff.rc, !.reply = Error("EIO"), !.reqs = ff.reqs]
        ELSE IF ~up.ok
        THEN [Base EXCEPT !.rc = ff.rc, !.reply = Error("EIO"),
                          !.reqs = ff.reqs \o up.reqs]
        ELSE [Base EXCEPT !.rc = ff.rc, !.s = IF del.ok THEN del.s ELSE up.s,
                          !.pit = rebind(PIT, old_path, new_path),
                          !.reply = IF del.ok THEN NoReply ELSE Error("EIO"),
                          !.reqs = ff.reqs \o up.reqs \o del.reqs]

(* fail is the request of the rename that fails in transit (1 the GET,     *)
(* 2 the PUT, 3 the DELETE), or 0.                                         *)
rename(parent, name, newparent, newname, fail) ==
    LET old_path == child_path(PIT, parent, name).full
        new_path == child_path(PIT, newparent, newname).full
        rc1 == invalidate(invalidate(RC, old_path), new_path)
        ff == fetch_file(rc1, srv, old_path, fail # 1)
        up == upload(srv, new_path, ff.data, fail # 2)
        del == delete_remote(up.s, old_path, fail # 3)
    IN  IF ~ff.ok
        THEN [Base EXCEPT !.rc = ff.rc, !.reply = Error("EIO"), !.reqs = ff.reqs]
        ELSE IF ~up.ok
        THEN [Base EXCEPT !.rc = ff.rc, !.reply = Error("EIO"),
                          !.reqs = ff.reqs \o up.reqs]
        ELSE IF ~del.ok
        THEN [Base EXCEPT !.rc = ff.rc, !.s = up.s, !.reply = Error("EIO"),
                          !.reqs = ff.reqs \o up.reqs \o del.reqs]
        ELSE [Base EXCEPT !.rc = ff.rc, !.s = del.s,
                          !.pit = rebind(PIT, old_path, new_path),
                          !.reqs = ff.reqs \o up.reqs \o del.reqs]

(* setattr that takes every Some(size) for a truncation to zero *)
SetattrAnySize(ino, size, fail) ==
    LET ip == inode_path(PIT, ino)
        up == upload(srv, ip.path, <<>>, fail # 1)
        ga == getattr(ino, fail # 2)
    IN  IF size # <<>> /\ ip.some /\ up.ok
        THEN [Base EXCEPT !.s = up.s, !.rc = invalidate(RC, ip.path),
                          !.reply = make_attr(ino, 0, "RegularFile"),
                          !.reqs = up.reqs]
        ELSE ga

(* size is <<>> for None and <<n>> for Some(n); fail is the request that   *)
(* fails in transit (1 the PUT, 2 the listing of getattr), or 0.           *)
setattr(ino, size, fail) ==
    LET ip == inode_path(PIT, ino)
        up == upload(srv, ip.path, <<>>, fail # 1)
        ga == getattr(ino, fail # 2)
    IN  IF size = <<0>> /\ ip.some
        THEN IF up.ok
             THEN [Base EXCEPT !.s = up.s, !.rc = invalidate(RC, ip.path),
                               !.reply = make_attr(ino, 0, "RegularFile"),
                               !.reqs = up.reqs]
             ELSE [ga EXCEPT !.reqs = up.reqs \o ga.reqs]
        ELSE ga

---------------------------------------------------------------------------
(* The state machine: the kernel calls one callback at a time (the FUSE    *)
(* session holds the filesystem by &mut self), with inodes and handles it  *)
(* was given earlier; every HTTP request and every scratch-file operation  *)
(* may fail.  A workload W bounds what the kernel asks for: the names it   *)
(* uses and the number of handles and inodes it makes the filesystem       *)
(* allocate, the payloads it writes and the number of files it keeps open  *)
(* for writing at a time.                                                  *)
(*                                                                         *)
(* track follows the bytes of one write through the callbacks:             *)
(*   "written"  write(fh, offset, data) succeeded on a clean buffer, and   *)
(*              fh was not written again;                                  *)
(*   "failed"   then a flush of fh failed at the upload;                   *)
(*   "flushed"  then a flush of fh replied ok, and nothing changed the     *)
(*              server or wrote to a buffer since;                         *)
(*   "renamed"  then path was renamed to another path, newpath, and        *)
(*              nothing changed the server or wrote to a buffer since.     *)
(* faulted tells that, on the way, a flush of fh failed at the upload or    *)
(* could not read the size of the scratch file.                            *)

NoTrack == [st |-> "none", fh |-> 0, path |-> Root, offset |-> 0, data |-> <<>>,
            newpath |-> Root, faulted |-> FALSE]

Settled == track.st \in {"flushed", "renamed"}

(* After a callback that is not part of the followed sequence. *)
TrackKeep(r) == IF Settled /\ r.s # srv THEN NoTrack ELSE track

(* An open that truncates starts from an empty scratch file, as a write.   *)
TrackOpen(truncate, r) ==
    IF Settled /\ truncate /\ r.wb # write_buffers THEN NoTrack ELSE track

TrackWrite(fh, offset, data, r) ==
    IF r.reply.code # "ok" THEN track
    ELSE IF ~write_buffers[fh].dirty
    THEN [st |-> "written", fh |-> fh, path |-> write_buffers[fh].path,
          offset |-> offset, data |-> data, newpath |-> Root, faulted |-> FALSE]
    ELSE IF fh = track.fh \/ Settled THEN NoTrack
    ELSE track

TrackFlush(fh, io, r) ==
    IF fh = track.fh /\ track.st \in {"written", "failed"}
    THEN IF r.reply.code = "ok"
         THEN [track EXCEPT !.st = "flushed",
                            !.faulted = @ \/ (io = "meta_err" /\ r.reqs # <<>>)]
         ELSE IF r.reqs # <<>> THEN [track EXCEPT !.st = "failed", !.faulted = TRUE]
         ELSE track
    ELSE TrackKeep(r)

TrackRelease(fh) ==
    IF fh = track.fh /\ track.st \in {"written", "failed"} THEN NoTrack ELSE track

TrackRename(old_path, new_path, r) ==
    IF track.st = "flushed" /\ r.reply.code = "ok"
       /\ old_path = track.path /\ new_path # old_path
    THEN [track EXCEPT !.st = "renamed", !.newpath = new_path]
    ELSE TrackKeep(r)

(* No call of fetch_range is being computed. *)
NoCalc == [st |-> "idle", offset |-> 0, size |-> 0, build |-> "", panic |-> FALSE,
           end |-> 0]

(* No callback is in progress on any of the parallel threads. *)
ParThreads == {1, 2}
ParIdle == [pc |-> "idle", op |-> "", path |-> Root, new |-> Root, got |-> <<>>,
            ls |-> <<>>]
NoPar == [lock |-> 0, partial |-> FALSE, th |-> [t \in ParThreads |-> ParIdle]]

(* CacheConfig::from_cli on the command lines of the model *)
Configs ==
    {from_cli(no_cache, MaxTtl, MaxTtl, MaxCacheMb) : no_cache \in BOOLEAN}

(* RemoteFS::new, RemoteClient::new *)
InitWith(servers) ==
    /\ inode_counter = 1
    /\ inode_to_path = (1 :> Root)
    /\ path_to_inode = (Root :> 1)
    /\ write_buffers = EmptyMap
    /\ fh_counter = 0
    /\ dir_cache = EmptyMap
    /\ file_cache = EmptyMap
    /\ file_cache_size = 0
    /\ cache_config \in Configs
    /\ now = 0
    /\ srv \in servers
    /\ open_files = EmptyMap
    /\ contexts = EmptyMap
    /\ unsaved = {}
    /\ par = NoPar
    /\ calc = NoCalc
    /\ track = NoTrack

File(data) == [is_dir |-> FALSE, data |-> data]

Inodes == 1..inode_counter
Offsets == 0..MaxLen
Sizes == 1..MaxLen
ScratchIo == {"ok", "seek_err", "io_err"}
FlushIo == ScratchIo \cup {"meta_err"}
AccessModes == {"O_RDONLY", "O_WRONLY", "O_RDWR"}
Truncations == {<<>>, <<0>>, <<1>>}

(* What can go wrong in a read: the scratch file fails, the request fails  *)
(* in transit, the server refuses a range past the end of the file.        *)
ReadFaults ==
    {[io |-> "ok", ok |-> TRUE, lenient |-> TRUE],
     [io |-> "ok", ok |-> TRUE, lenient |-> FALSE],
     [io |-> "ok", ok |-> FALSE, lenient |-> TRUE],
     [io |-> "seek_err", ok |-> TRUE, lenient |-> TRUE],
     [io |-> "io_err", ok |-> TRUE, lenient |-> TRUE]}

(* The child path stays within the model's depth. *)
DepthOk(parent) == Len(inode_path(PIT, parent).path) < MaxDepth

(* The step leaves the filesystem, the client and the server as r says. *)
Leaves(r) ==
    /\ inode_counter' = r.pit.inode_counter
    /\ inode_to_path' = r.pit.inode_to_path
    /\ path_to_inode' = r.pit.path_to_inode
    /\ write_buffers' = r.wb
    /\ fh_counter' = r.fhc
    /\ dir_cache' = r.rc.dir_cache
    /\ file_cache' = r.rc.file_cache
    /\ file_cache_size' = r.rc.file_cache_size
    /\ srv' = r.s
    /\ UNCHANGED <<cache_config, now, contexts, unsaved, par, calc>>

Commit(W, r) ==
    /\ r.pit.inode_counter <= W.max_inode
    /\ r.fhc <= W.max_fh
    /\ Cardinality(DOMAIN r.wb) <= W.max_buffers
    /\ Leaves(r)

Lookup(W) ==
    \E parent \in Inodes, name \in W.names, ok \in BOOLEAN :
        LET r == lookup(parent, name, ok)
        IN  /\ DepthOk(parent)
            /\ Commit(W, r)
            /\ track' = TrackKeep(r)
            /\ UNCHANGED open_files

GetAttr(W) ==
    \E ino \in Inodes, ok \in BOOLEAN :
        LET r == getattr(ino, ok)
        IN  /\ Commit(W, r)
            /\ track' = TrackKeep(r)
            /\ UNCHANGED open_files

ReadDir(W) ==
    \E ino \in Inodes, offset \in 0..1, ok \in BOOLEAN :
        LET r == readdir(ino, offset, ok)
        IN  /\ DepthOk(ino)
            /\ Commit(W, r)
            /\ track' = TrackKeep(r)
            /\ UNCHANGED open_files

(* The kernel opens files, never the root directory. *)
Open(W) ==
    \E ino \in Inodes \ {1}, access \in AccessModes, truncate \in BOOLEAN, ok \in BOOLEAN :
        LET r == open(ino, access, truncate, ok)
        IN  /\ Commit(W, r)
            /\ open_files' = MapPut(open_files, r.reply.fh, ino)
            /\ track' = TrackOpen(truncate, r)

Read(W) ==
    \E fh \in DOMAIN open_files, offset \in Offsets, size \in Sizes, f \in ReadFaults :
        LET r == read(open_files[fh], fh, offset, size, f.io, f.ok, f.lenient)
        IN  /\ Commit(W, r)
            /\ track' = TrackKeep(r)
            /\ UNCHANGED open_files

Create(W) ==
    \E parent \in Inodes, name \in W.names, ok \in BOOLEAN :
        LET r == create(parent, name, ok)
        IN  /\ DepthOk(parent)
            /\ Commit(W, r)
            /\ open_files' = IF r.reply.code = "ok"
                             THEN MapPut(open_files, r.reply.fh, r.reply.ino)
                             ELSE open_files
            /\ track' = TrackKeep(r)

Write(W) ==
    \E fh \in DOMAIN open_files, offset \in Offsets, data \in W.data, io \in ScratchIo :
        LET r == write(fh, offset, data, io)
        IN  /\ offset + Len(data) <= MaxLen
            /\ Commit(W, r)
            /\ track' = TrackWrite(fh, offset, data, r)
            /\ UNCHANGED open_files

Flush(W) ==
    \E fh \in DOMAIN open_files, io \in FlushIo, ok \in BOOLEAN :
        LET r == flush(fh, io, ok)
        IN  /\ Commit(W, r)
            /\ track' = TrackFlush(fh, io, r)
            /\ UNCHANGED open_files

Release(W) ==
    \E fh \in DOMAIN open_files :
        /\ Commit(W, release(fh))
        /\ open_files' = MapDel(open_files, fh)
        /\ track' = TrackRelease(fh)

Mkdir(W) ==
    \E parent \in Inodes, name \in W.names, ok \in BOOLEAN :
        LET r == mkdir(parent, name, ok)
        IN  /\ DepthOk(parent)
            /\ Commit(W, r)
            /\ track' = TrackKeep(r)
            /\ UNCHANGED open_files

Unlink(W) ==
    \E parent \in Inodes, name \in W.names, ok \in BOOLEAN :
        LET r == unlink(parent, name, ok)
        IN  /\ DepthOk(parent)
            /\ Commit(W, r)
            /\ track' = TrackKeep(r)
            /\ UNCHANGED open_files

Rmdir(W) ==
    \E parent \in Inodes, name \in W.names, ok \in BOOLEAN :
        LET r == rmdir(parent, name, ok)
        IN  /\ DepthOk(parent)
            /\ Commit(W, r)
            /\ track' = TrackKeep(r)
            /\ UNCHANGED open_files

Rename(W) ==
    \E parent \in Inodes, name \in W.names, newparent \in Inodes, newname \in W.names,
       fail \in 0..3 :
        LET r == rename(parent, name, newparent, newname, fail)
        IN  /\ DepthOk(parent)
            /\ DepthOk(newparent)
            /\ Commit(W, r)
            /\ track' = TrackRename(child_path(PIT, parent, name).full,
                                    child_path(PIT, newparent, newname).full, r)
            /\ UNCHANGED open_files

SetAttr(W) ==
    \E ino \in Inodes, size \in Truncations, fail \in 0..2 :
        LET r == setattr(ino, size, fail)
        IN  /\ Commit(W, r)
            /\ track' = TrackKeep(r)
            /\ UNCHANGED open_files

(* Time passes between callbacks. *)
Tick ==
    /\ now < MaxTime
    /\ now' = now + 1
    /\ UNCHANGED <<inode_counter, inode_to_path, path_to_inode, write_buffers,
                   fh_counter, dir_cache, file_cache, file_cache_size,
                   cache_config, srv, open_files, contexts, unsaved, par, calc, track>>

---------------------------------------------------------------------------
(* The data workload: one file, written, flushed and read through two      *)
(* handles.                                                                *)

DataMaxInode == 3
DataMaxFh == 2
WData == [names |-> {"a"}, data |-> WriteData, max_inode |-> DataMaxInode,
          max_fh |-> DataMaxFh, max_buffers |-> DataMaxFh]

InitData == InitWith({EmptyMap, (<<"a">> :> File(<<0>>))})

NextData ==
    \/ Lookup(WData) \/ GetAttr(WData) \/ ReadDir(WData) \/ Open(WData)
    \/ Read(WData) \/ Create(WData) \/ Write(WData) \/ Flush(WData)
    \/ Release(WData) \/ Unlink(WData) \/ SetAttr(WData)

SpecData == InitData /\ [][NextData]_vars

---------------------------------------------------------------------------
(* The namespace workload: two names, files and directories that are       *)
(* created, listed, renamed and removed, never written.                    *)

NsMaxInode == 3
NsMaxFh == 1
WNs == [names |-> {"a", "b"}, data |-> {}, max_inode |-> NsMaxInode,
        max_fh |-> NsMaxFh, max_buffers |-> NsMaxFh]

InitNs == InitWith({EmptyMap, (<<"a">> :> File(<<1>>))})

NextNs ==
    \/ Lookup(WNs) \/ GetAttr(WNs) \/ ReadDir(WNs) \/ Create(WNs) \/ Mkdir(WNs)
    \/ Unlink(WNs) \/ Rmdir(WNs) \/ Rename(WNs) \/ SetAttr(WNs) \/ Release(WNs)

SpecNs == InitNs /\ [][NextNs]_vars

---------------------------------------------------------------------------
(* The rename workload: a file that is written and flushed under one name  *)
(* and renamed to the other.                                               *)

RenMaxInode == 2
RenMaxFh == 2
RenMaxBuffers == 1
WRen == [names |-> {"a", "b"}, data |-> {<<1, 1>>}, max_inode |-> RenMaxInode,
         max_fh |-> RenMaxFh, max_buffers |-> RenMaxBuffers]

InitRen == InitWith({(<<"a">> :> File(<<0>>))})

NextRen ==
    \/ Lookup(WRen) \/ Open(WRen) \/ Read(WRen) \/ Write(WRen) \/ Flush(WRen)
    \/ Release(WRen) \/ Rename(WRen)

SpecRen == InitRen /\ [][NextRen]_vars

---------------------------------------------------------------------------
(* The cache workload: two files of different sizes that are listed,       *)
(* opened and read while time passes.                                      *)

CacheMaxInode == 3
CacheMaxFh == 2
WCache == [names |-> {"a", "b"}, data |-> {}, max_inode |-> CacheMaxInode,
           max_fh |-> CacheMaxFh, max_buffers |-> CacheMaxFh]

InitCache == InitWith({(<<"a">> :> File(<<1>>)) @@ (<<"b">> :> File(<<1, 1, 1>>))})

NextCache ==
    \/ Lookup(WCache) \/ GetAttr(WCache) \/ ReadDir(WCache) \/ Open(WCache)
    \/ Read(WCache) \/ Release(WCache) \/ Unlink(WCache) \/ SetAttr(WCache)
    \/ Tick

SpecCache == InitCache /\ [][NextCache]_vars

---------------------------------------------------------------------------
(* The eviction workload: two files that fit the cache budget together,    *)
(* opened for writing again and again while time passes.                   *)

EvictMaxInode == 3
EvictMaxFh == 3
WEvict == [names |-> {"a", "b"}, data |-> {}, max_inode |-> EvictMaxInode,
           max_fh |-> EvictMaxFh, max_buffers |-> EvictMaxFh]

InitEvict == InitWith({(<<"a">> :> File(<<1>>)) @@ (<<"b">> :> File(<<1>>))})

NextEvict ==
    \/ Lookup(WEvict) \/ Open(WEvict) \/ Release(WEvict) \/ Tick

SpecEvict == InitEvict /\ [][NextEvict]_vars

---------------------------------------------------------------------------
(* What the callbacks would do in the current state, for every input the   *)
(* kernel can give them.                                                   *)

Names == {"a", "b"}
ModelPaths == {Root} \cup {<<n>> : n \in Names}
Parents == {ino \in Inodes : DepthOk(ino)}

LookupResults == {lookup(parent, name, ok) : parent \in Parents, name \in Names, ok \in BOOLEAN}
GetAttrResults == {getattr(ino, ok) : ino \in Inodes, ok \in BOOLEAN}
ReadDirResults == {readdir(ino, offset, ok) : ino \in Parents, offset \in 0..1, ok \in BOOLEAN}
OpenResults ==
    {open(ino, access, truncate, ok) :
        ino \in Inodes \ {1}, access \in AccessModes, truncate \in BOOLEAN, ok \in BOOLEAN}
ReadResults ==
    {read(open_files[fh], fh, offset, size, f.io, f.ok, f.lenient) :
        fh \in DOMAIN open_files, offset \in Offsets, size \in Sizes, f \in ReadFaults}
CreateResults == {create(parent, name, ok) : parent \in Parents, name \in Names, ok \in BOOLEAN}
ReleaseResults == {release(fh) : fh \in DOMAIN open_files}
MkdirResults == {mkdir(parent, name, ok) : parent \in Parents, name \in Names, ok \in BOOLEAN}
UnlinkResults == {unlink(parent, name, ok) : parent \in Parents, name \in Names, ok \in BOOLEAN}
RmdirResults == {rmdir(parent, name, ok) : parent \in Parents, name \in Names, ok \in BOOLEAN}
RenameResults ==
    {rename(parent, name, newparent, newname, fail) :
        parent \in Parents, name \in Names, newparent \in Parents, newname \in Names,
        fail \in 0..3}
SetAttrResults == {setattr(ino, size, fail) : ino \in Inodes, size \in Truncations, fail \in 0..2}

(* Every callback but write and flush. *)
OtherResults ==
    LookupResults \cup GetAttrResults \cup ReadDirResults \cup OpenResults
    \cup ReadResults \cup CreateResults \cup ReleaseResults \cup MkdirResults
    \cup UnlinkResults \cup RmdirResults \cup RenameResults \cup SetAttrResults

(* The bytes that size bytes at offset of file are. *)
BytesAt(file, offset, size) ==
    LET n == IF offset >= Len(file) THEN 0 ELSE Min(size, Len(file) - offset)
    IN  [i \in 1..n |-> file[offset + i]]

DataReply(data) == [NoReply EXCEPT !.data = data]

(* The open handles that have no write buffer, and the inodes of a path. *)
Readers == DOMAIN open_files \ DOMAIN write_buffers
InodesOf(path) == {ino \in DOMAIN inode_to_path : inode_to_path[ino] = path}

---------------------------------------------------------------------------
(* C1.  After write(fh, o, B) on a clean buffer that is not written again  *)
(* and a flush of fh that replies ok, a read of len(B) bytes at o of the   *)
(* buffer's path, through a handle that has no write buffer, returns B.    *)
WriteFlushRead ==
    track.st = "flushed" =>
        \A ino \in InodesOf(track.path), fh \in Readers, lenient \in BOOLEAN :
            read(ino, fh, track.offset, Len(track.data), "ok", TRUE, lenient).reply
                = DataReply(track.data)

(* The case of C1 that holds: no flush of the handle failed at the upload  *)
(* or at the size of the scratch file on the way.                          *)
WriteFlushReadFirstTry ==
    track.st = "flushed" /\ ~track.faulted =>
        \A ino \in InodesOf(track.path), fh \in Readers, lenient \in BOOLEAN :
            read(ino, fh, track.offset, Len(track.data), "ok", TRUE, lenient).reply
                = DataReply(track.data)

(* C2.  dirty changes from cleared to set only in a write that succeeds    *)
(* and from set to cleared only in a flush whose upload succeeds; a flush  *)
(* of a dirty buffer that fails at the scratch file or at the upload       *)
(* replies EIO and leaves dirty set.                                       *)
DirtyMonotonic ==
    \A fh \in DOMAIN write_buffers :
        LET d == write_buffers[fh].dirty
        IN  /\ \A r \in OtherResults : fh \in DOMAIN r.wb => r.wb[fh].dirty = d
            /\ \A offset \in Offsets, data \in WriteData, io \in ScratchIo :
                  LET r == write(fh, offset, data, io)
                  IN  r.wb[fh].dirty # d => ~d /\ r.reply.code = "ok"
            /\ \A io \in FlushIo, ok \in BOOLEAN :
                  LET r == flush(fh, io, ok)
                      uploaded == r.reqs # <<>> /\ r.reqs[1].ok
                  IN  /\ r.wb[fh].dirty # d => d /\ uploaded
                      /\ d /\ ~uploaded => r.reply.code = "EIO" /\ r.wb[fh].dirty

(* C3.  After a flush of fh whose upload failed, and no write since, the   *)
(* next flush of fh sends the PUT of the whole scratch file, and once the  *)
(* server accepts it the server holds the scratch file.                    *)
FlushRetries ==
    track.st = "failed" =>
        LET buf == write_buffers[track.fh]
            r == flush(track.fh, "ok", TRUE)
        IN  /\ Len(r.reqs) = 1
            /\ r.reqs[1].method = "PUT"
            /\ r.reqs[1].path = buf.path
            /\ r.reqs[1].body = buf.file
            /\ r.reqs[1].ok => r.s[buf.path] = File(buf.file)

(* C4.  After a write and a flush that replies ok (nothing having failed   *)
(* on the way), a read of the written range through any open handle on an  *)
(* inode of the path returns the written bytes.                            *)
ReadYourWrites ==
    track.st = "flushed" /\ ~track.faulted =>
        \A fh \in DOMAIN open_files, lenient \in BOOLEAN :
            open_files[fh] \in InodesOf(track.path) =>
                read(open_files[fh], fh, track.offset, Len(track.data), "ok", TRUE, lenient).reply
                    = DataReply(track.data)

(* C5.  When fh has a write buffer, read(fh, offset, size) replies with    *)
(* the bytes of the scratch file at offset, whatever the inode, the server *)
(* and the file-body cache hold, and sends no request.                     *)
ReadPrefersBuffer ==
    \A fh \in DOMAIN write_buffers, ino \in Inodes, offset \in Offsets, size \in Sizes,
       ok \in BOOLEAN, lenient \in BOOLEAN :
        LET r == read(ino, fh, offset, size, "ok", ok, lenient)
        IN  /\ r.reply = DataReply(BytesAt(write_buffers[fh].file, offset, size))
            /\ r.reqs = <<>>
            /\ r.served = <<>>

(* A dirty buffer whose bytes differ from the server's file and from a     *)
(* fresh cached body of its path, read in full through its handle.         *)
ReadPrefersBufferWitness ==
    \E fh \in DOMAIN write_buffers :
        LET buf == write_buffers[fh]
        IN  /\ buf.dirty
            /\ buf.file # <<>>
            /\ SrvIsFile(srv, buf.path) /\ srv[buf.path].data # buf.file
            /\ cached_file_data(RC, buf.path).some
            /\ cached_file_data(RC, buf.path).data # buf.file
            /\ fh \in DOMAIN open_files
            /\ read(open_files[fh], fh, 0, MaxLen, "ok", TRUE, TRUE).reply.data = buf.file

(* C6.  inode_to_path and path_to_inode are inverses of each other.        *)
Bidirectional ==
    /\ \A ino \in DOMAIN inode_to_path :
          /\ inode_to_path[ino] \in DOMAIN path_to_inode
          /\ path_to_inode[inode_to_path[ino]] = ino
    /\ \A path \in DOMAIN path_to_inode :
          /\ path_to_inode[path] \in DOMAIN inode_to_path
          /\ inode_to_path[path_to_inode[path]] = path

(* No cache holds path, and the directory cache does not hold its parent.  *)
Invalidated(rc, path) ==
    /\ path \notin DOMAIN rc.dir_cache
    /\ parent_of(path) \notin DOMAIN rc.dir_cache
    /\ path \notin DOMAIN rc.file_cache

(* C7.  When create, mkdir, unlink, rmdir, an uploading flush, rename or   *)
(* a truncation replies ok, the caches it leaves hold no entry for the     *)
(* affected path (for rename: the old and the new path) nor a listing of   *)
(* its parent.                                                             *)
InvalidatedAfterMutation ==
    /\ \A parent \in Parents, name \in Names, ok \in BOOLEAN :
          LET path == child_path(PIT, parent, name).full
          IN  \A r \in {create(parent, name, ok), mkdir(parent, name, ok),
                        unlink(parent, name, ok), rmdir(parent, name, ok)} :
                  r.reply.code = "ok" => Invalidated(r.rc, path)
    /\ \A fh \in DOMAIN write_buffers :
          LET r == flush(fh, "ok", TRUE)
          IN  r.reply.code = "ok" /\ r.reqs # <<>> => Invalidated(r.rc, write_buffers[fh].path)
    /\ \A ino \in DOMAIN inode_to_path :
          LET r == setattr(ino, <<0>>, 0)
          IN  r.reqs # <<>> /\ r.reqs[1].method = "PUT" /\ r.reqs[1].ok
                  => Invalidated(r.rc, inode_to_path[ino])
    /\ \A parent \in Parents, name \in Names, newparent \in Parents, newname \in Names :
          LET r == rename(parent, name, newparent, newname, 0)
          IN  r.reply.code = "ok" =>
                  /\ Invalidated(r.rc, child_path(PIT, parent, name).full)
                  /\ Invalidated(r.rc, child_path(PIT, newparent, newname).full)

RECURSIVE BodyBytes(_, _)
BodyBytes(fc, paths) ==
    IF paths = {} THEN 0
    ELSE LET p == CHOOSE q \in paths : TRUE
         IN  Len(fc[p].data) + BodyBytes(fc, paths \ {p})

(* C8.  The lengths of the cached file bodies sum to at most               *)
(* max_file_cache_bytes.                                                   *)
CacheWithinBudget ==
    BodyBytes(file_cache, DOMAIN file_cache) <= cache_config.max_file_cache_bytes

CachingOff ==
    cache_config = [dir_ttl |-> 0, file_ttl |-> 0, max_file_cache_bytes |-> 0]

TtlOf(cache) == IF cache = "dir" THEN cache_config.dir_ttl ELSE cache_config.file_ttl

(* The cache entries that an operation reported as served. *)
ServedInTtl(served) ==
    /\ \A i \in 1..Len(served) : served[i].age < TtlOf(served[i].cache)
    /\ CachingOff => served = <<>>

(* C9.  list_dir, fetch_file and read, and so every callback, serve a      *)
(* cached entry only when its age is less than its TTL; when the TTLs and  *)
(* the byte budget are zero nothing is served from a cache, and list_dir   *)
(* and fetch_file send a request each time.                                *)
ServedOnlyWhenFresh ==
    /\ \A r \in OtherResults : ServedInTtl(r.served)
    /\ \A path \in ModelPaths, ok \in BOOLEAN :
          /\ ServedInTtl(list_dir(RC, srv, path, ok).served)
          /\ ServedInTtl(fetch_file(RC, srv, path, ok).served)
          /\ ServedInTtl(cached_file_data(RC, path).served)
          /\ CachingOff => /\ list_dir(RC, srv, path, ok).reqs # <<>>
                           /\ fetch_file(RC, srv, path, ok).reqs # <<>>

(* A listing in the cache is served, and a body in the cache whose age has *)
(* reached the TTL is not.                                                 *)
ServedOnlyWhenFreshWitness ==
    /\ \E r \in LookupResults : r.served # <<>> /\ r.served[1].cache = "dir"
    /\ \E path \in DOMAIN file_cache :
          /\ cache_config.file_ttl > 0
          /\ now - file_cache[path].cached_at = cache_config.file_ttl
          /\ ~cached_file_data(RC, path).some
          /\ fetch_file(RC, srv, path, TRUE).reqs # <<>>

(* C10.  After write(fh, o, B), a flush of fh that replies ok and a rename *)
(* of the path to another path that replies ok, a read of len(B) bytes at  *)
(* o of the new path returns B and a lookup of the old path replies        *)
(* ENOENT.                                                                 *)
RenameKeepsBytes ==
    track.st = "renamed" =>
        /\ \A ino \in InodesOf(track.newpath), fh \in Readers, lenient \in BOOLEAN :
              read(ino, fh, track.offset, Len(track.data), "ok", TRUE, lenient).reply
                  = DataReply(track.data)
        /\ \A parent \in Parents, name \in Names, ok \in BOOLEAN :
              child_path(PIT, parent, name).full = track.path
                  => lookup(parent, name, ok).reply.code = "ENOENT"

(* The case of C10 that holds: no flush of the handle failed at the upload *)
(* or at the size of the scratch file on the way.                          *)
RenameKeepsBytesFirstTry ==
    track.st = "renamed" /\ ~track.faulted =>
        /\ \A ino \in InodesOf(track.newpath), fh \in Readers, lenient \in BOOLEAN :
              read(ino, fh, track.offset, Len(track.data), "ok", TRUE, lenient).reply
                  = DataReply(track.data)
        /\ \A parent \in Parents, name \in Names, ok \in BOOLEAN :
              child_path(PIT, parent, name).full = track.path
                  => lookup(parent, name, ok).reply.code = "ENOENT"

---------------------------------------------------------------------------
(* C11.  When rename(old -> new), old # new, replies ok and old was bound  *)
(* to inode i, the table it leaves binds i to new and new to i, binds      *)
(* nothing to old, and binds no other inode to new.                        *)
RenameRebinds ==
    \A parent \in Parents, name \in Names, newparent \in Parents, newname \in Names :
        LET old_path == child_path(PIT, parent, name).full
            new_path == child_path(PIT, newparent, newname).full
            r == rename(parent, name, newparent, newname, 0)
            i == path_to_inode[old_path]
        IN  r.reply.code = "ok" /\ old_path # new_path /\ old_path \in DOMAIN path_to_inode =>
                /\ i \in DOMAIN r.pit.inode_to_path
                /\ r.pit.inode_to_path[i] = new_path
                /\ new_path \in DOMAIN r.pit.path_to_inode
                /\ r.pit.path_to_inode[new_path] = i
                /\ old_path \notin DOMAIN r.pit.path_to_inode
                /\ \A j \in DOMAIN r.pit.inode_to_path :
                      r.pit.inode_to_path[j] \in {old_path, new_path} => j = i

(* The table binds neither path nor ino. *)
Unbound(path, ino) ==
    /\ path \notin DOMAIN path_to_inode
    /\ ino \notin DOMAIN inode_to_path
    /\ \A j \in DOMAIN inode_to_path : inode_to_path[j] # path
    /\ \A q \in DOMAIN path_to_inode : path_to_inode[q] # ino

(* C12.  In the state that an unlink or rmdir of (parent, name) that       *)
(* replied ok leaves, lookup(parent, name) replies ENOENT, getattr of the  *)
(* inode that the path had replies ENOENT, and the table binds neither the *)
(* path nor that inode.                                                    *)
UnlinkUnbinds ==
    [][\A parent \in Parents, name \in Names, un \in {"unlink", "rmdir"} :
       \A path \in {child_path(PIT, parent, name).full} :
       \A i \in {IF path \in DOMAIN path_to_inode THEN path_to_inode[path] ELSE 0} :
       \A r \in {IF un = "unlink" THEN unlink(parent, name, TRUE)
                 ELSE rmdir(parent, name, TRUE)} :
              r.reply.code = "ok" /\ Leaves(r) =>
                  /\ \A ok \in BOOLEAN : (lookup(parent, name, ok).reply.code = "ENOENT")'
                  /\ \A ok \in BOOLEAN : (getattr(i, ok).reply.code = "ENOENT")'
                  /\ Unbound(path, i)'
      ]_vars

(* Lemma for C12: the same holds of every unlink or rmdir whose path no    *)
(* inode other than its own is still bound to.                             *)
UnlinkUnbindsNoStale ==
    [][\A parent \in Parents, name \in Names, un \in {"unlink", "rmdir"} :
       \A path \in {child_path(PIT, parent, name).full} :
       \A i \in {IF path \in DOMAIN path_to_inode THEN path_to_inode[path] ELSE 0} :
       \A r \in {IF un = "unlink" THEN unlink(parent, name, TRUE)
                 ELSE rmdir(parent, name, TRUE)} :
              /\ r.reply.code = "ok"
              /\ Leaves(r)
              /\ \A j \in DOMAIN inode_to_path : inode_to_path[j] = path => j = i
              =>  /\ \A ok \in BOOLEAN : (lookup(parent, name, ok).reply.code = "ENOENT")'
                  /\ \A ok \in BOOLEAN : (getattr(i, ok).reply.code = "ENOENT")'
                  /\ Unbound(path, i)'
      ]_vars

---------------------------------------------------------------------------
(* C13.  Every step leaves the inode counter at least as high as it was,   *)
(* every inode number that a step newly binds is above the counter, hence  *)
(* above every number allocated before, and every bound number is at most  *)
(* the counter: no number comes back once its path was unlinked or renamed *)
(* away.                                                                   *)
InodesNeverReused ==
    [][/\ inode_counter' >= inode_counter
       /\ \A ino \in DOMAIN inode_to_path' \ DOMAIN inode_to_path : ino > inode_counter
       /\ \A path \in DOMAIN path_to_inode' \ DOMAIN path_to_inode :
             \/ path_to_inode'[path] > inode_counter
             \/ path_to_inode'[path] \in DOMAIN inode_to_path
       /\ DOMAIN inode_to_path' \subseteq 1..inode_counter'
       /\ \A path \in DOMAIN path_to_inode' : path_to_inode'[path] \in 1..inode_counter'
      ]_vars

(* Inode 2 was unbound, and file a was bound to inode 3 afterwards. *)
InodesNeverReusedWitness ==
    /\ inode_counter = 3
    /\ 2 \notin DOMAIN inode_to_path
    /\ 3 \in DOMAIN inode_to_path
    /\ inode_to_path[3] = <<"a">>
    /\ <<"a">> \in DOMAIN path_to_inode
    /\ path_to_inode[<<"a">>] = 3

(* C14.  alloc_inode twice for the same path: the second call returns the  *)
(* inode of the first and leaves the counter and both maps as the first    *)
(* left them; the first allocation of a session yields inode 2.            *)
AllocIdempotent ==
    \A path \in ModelPaths :
        LET first == alloc_inode(PIT, path)
            second == alloc_inode(first.pit, path)
        IN  /\ second.ino = first.ino
            /\ second.pit.inode_counter = first.pit.inode_counter
            /\ second.pit.path_to_inode = first.pit.path_to_inode
            /\ second.pit.inode_to_path = first.pit.inode_to_path
            /\ inode_counter = 1 /\ path # Root => first.ino = 2

(* The first allocation gave inode 2, and a path is still to be allocated. *)
AllocIdempotentWitness ==
    /\ 2 \in DOMAIN inode_to_path
    /\ \E path \in ModelPaths :
          /\ path \notin DOMAIN path_to_inode
          /\ alloc_inode(PIT, path).ino = inode_counter + 1

(* The table binds inode 1 and the empty path to each other only. *)
RootBound(pit) ==
    /\ 1 \in DOMAIN pit.inode_to_path
    /\ pit.inode_to_path[1] = Root
    /\ Root \in DOMAIN pit.path_to_inode
    /\ pit.path_to_inode[Root] = 1
    /\ \A ino \in DOMAIN pit.inode_to_path : pit.inode_to_path[ino] = Root => ino = 1

(* C15.  Inode 1 is bound to the empty path and the empty path to inode 1  *)
(* in every reachable state and in the table every unlink, rmdir and       *)
(* rename leaves, whatever the parent and the names; alloc_inode of the    *)
(* empty path returns 1 and changes nothing.                               *)
RootFixed ==
    /\ RootBound(PIT)
    /\ alloc_inode(PIT, Root) = [pit |-> PIT, ino |-> 1]
    /\ \A r \in UnlinkResults \cup RmdirResults \cup RenameResults : RootBound(r.pit)

(* An unlink or rmdir has removed an inode and another inode is bound. *)
RootFixedWitness ==
    /\ RootBound(PIT)
    /\ \E ino \in 2..inode_counter : ino \notin DOMAIN inode_to_path
    /\ \E ino \in 2..inode_counter : ino \in DOMAIN inode_to_path
    /\ srv # EmptyMap

---------------------------------------------------------------------------
(* What create, write and flush would do in this state: create issues one  *)
(* PUT of an empty body to the child path and registers an empty, clean    *)
(* scratch file for it under a new handle; a write at the end of a scratch *)
(* file, which is offset 0 for B1 and len(B1) for B2, appends the bytes;   *)
(* a flush of a dirty buffer issues one PUT of the whole scratch file to   *)
(* the buffer's path.                                                      *)
CreateWriteFlushNow ==
    /\ \A parent \in Parents, name \in Names, ok \in BOOLEAN :
          LET full_path == child_path(PIT, parent, name).full
              r == create(parent, name, ok)
          IN  /\ Len(r.reqs) = 1
              /\ r.reqs[1].method = "PUT"
              /\ r.reqs[1].path = full_path
              /\ r.reqs[1].body = <<>>
              /\ r.reply.code = "ok" =>
                    /\ r.reply.fh \notin DOMAIN write_buffers
                    /\ r.reply.fh \in DOMAIN r.wb
                    /\ r.wb[r.reply.fh] = [file |-> <<>>, path |-> full_path, dirty |-> FALSE]
    /\ \A fh \in DOMAIN write_buffers, data \in WriteData :
          LET buf == write_buffers[fh]
              r == write(fh, Len(buf.file), data, "ok")
          IN  /\ r.reply.code = "ok"
              /\ r.reqs = <<>>
              /\ r.wb[fh] = [file |-> buf.file \o data, path |-> buf.path, dirty |-> TRUE]
    /\ \A fh \in DOMAIN write_buffers, ok \in BOOLEAN :
          LET buf == write_buffers[fh]
              r == flush(fh, "ok", ok)
          IN  buf.dirty =>
                  /\ Len(r.reqs) = 1
                  /\ r.reqs[1].method = "PUT"
                  /\ r.reqs[1].path = buf.path
                  /\ r.reqs[1].body = buf.file

(* In the state that such a flush leaves when the server took the PUT, a   *)
(* lookup of the path finds a file of the scratch file's size and a read   *)
(* at offset 0 through a handle that has no write buffer returns the       *)
(* scratch file's bytes.                                                   *)
CreateWriteFlushLater ==
    \A fh \in DOMAIN write_buffers :
    \A path \in {write_buffers[fh].path}, file \in {write_buffers[fh].file} :
    \A dirty \in {write_buffers[fh].dirty} :
    \A r \in {IF dirty THEN flush(fh, "ok", TRUE) ELSE Base} :
            dirty /\ r.reply.code = "ok" /\ Leaves(r) =>
                /\ \A name \in Names :
                      (\A parent \in DOMAIN inode_to_path :
                        child_path(PIT, parent, name).full = path =>
                          \A found \in {lookup(parent, name, TRUE)} :
                              /\ found.reply.code = "ok"
                              /\ found.reply.size = Len(file)
                              /\ found.pit.inode_to_path[found.reply.ino] = path)'
                /\ \A size \in Sizes, lenient \in BOOLEAN :
                      (\A ino \in InodesOf(path), reader \in Readers :
                          read(ino, reader, 0, size, "ok", TRUE, lenient).reply
                              = DataReply(BytesAt(file, 0, size)))'

(* C16.  create issues a PUT with an empty body; write(fh, 0, B1), then    *)
(* write(fh, len(B1), B2), then flush(fh) issue one PUT to the same path   *)
(* with body B1 B2; afterwards lookup(parent, name) succeeds and a read    *)
(* from offset 0 through a fresh handle returns B1 B2.                     *)
CreateWriteFlush == []CreateWriteFlushNow /\ [][CreateWriteFlushLater]_vars

(* A created file was written twice and flushed: its handle is clean, its  *)
(* scratch file and the server's file hold the two bytes, the path has an  *)
(* inode and a handle without a write buffer is open.                      *)
CreateWriteFlushWitness ==
    \E fh \in DOMAIN write_buffers :
        LET buf == write_buffers[fh]
        IN  /\ ~buf.dirty
            /\ Len(buf.file) = 2
            /\ buf.path \in DOMAIN srv
            /\ srv[buf.path] = File(buf.file)
            /\ InodesOf(buf.path) # {}
            /\ Readers # {}

---------------------------------------------------------------------------
(* A request of the callback failed: the transport or the server's status. *)
FailedRequest(r) == \E i \in 1..Len(r.reqs) : ~r.reqs[i].ok

(* The results of flush, and of setattr with size 0 whose PUT failed. *)
FlushResults ==
    {flush(fh, io, ok) : fh \in DOMAIN write_buffers, io \in FlushIo, ok \in BOOLEAN}
TruncateFailures ==
    {r \in {setattr(ino, <<0>>, fail) : ino \in Inodes \ {1}, fail \in 0..2} :
        r.reqs # <<>> /\ r.reqs[1].method = "PUT" /\ ~r.reqs[1].ok}

(* C17.  Whenever the request that read (the range fetch), create, mkdir,  *)
(* unlink, rmdir, rename, flush or a truncating setattr issues fails, the  *)
(* callback replies EIO, never success and never ENOENT.                   *)
HttpFailureIsEio ==
    /\ \A r \in ReadResults \cup CreateResults \cup MkdirResults \cup UnlinkResults
                \cup RmdirResults \cup RenameResults \cup FlushResults :
          FailedRequest(r) => r.reply.code = "EIO"
    /\ \A r \in TruncateFailures : r.reply.code = "EIO"

(* The part of C17 that holds: create, mkdir, unlink, rmdir, rename and    *)
(* flush reply EIO when their request fails.                               *)
HttpFailureIsEioButReadAndSetattr ==
    \A r \in CreateResults \cup MkdirResults \cup UnlinkResults
             \cup RmdirResults \cup RenameResults \cup FlushResults :
        FailedRequest(r) => r.reply.code = "EIO"

(* The two parts of C17 that fail, each on its own. *)
ReadFailureIsEio == \A r \in ReadResults : FailedRequest(r) => r.reply.code = "EIO"
TruncateFailureIsEio == \A r \in TruncateFailures : r.reply.code = "EIO"

---------------------------------------------------------------------------
(* The handles the kernel may still pass: every number up to one past the  *)
(* last one handed out.                                                    *)
Handles == 0..(fh_counter + 1)

(* C18.  A write on a handle that has no write buffer replies EBADF,       *)
(* issues no request and leaves the write buffers (scratch files and dirty *)
(* flags), the caches, the inode table and the server as they are.         *)
WriteBadHandle ==
    \A fh \in Handles \ DOMAIN write_buffers, offset \in Offsets, data \in WriteData,
       io \in ScratchIo :
        write(fh, offset, data, io) = [Base EXCEPT !.reply = Error("EBADF")]

(* A handle without a write buffer is open while another handle's scratch *)
(* file is dirty and the server has a file.                                *)
WriteBadHandleWitness ==
    /\ Readers # {}
    /\ \E fh \in DOMAIN write_buffers : write_buffers[fh].dirty
    /\ srv # EmptyMap

(* What every callback would leave of the handle counter and the registry: *)
(* the counter never decreases and every row is under a handle that was    *)
(* handed out.                                                             *)
HandlesWithinCounter(r) ==
    /\ r.fhc >= fh_counter
    /\ DOMAIN r.wb \subseteq 1..r.fhc

(* C19.  open and create reply the handle one above the counter, above     *)
(* every handle handed out before, and register their scratch file under   *)
(* it without touching another row; every live handle and every row is at  *)
(* most the counter; a write through one handle changes that handle's      *)
(* scratch file only.                                                      *)
HandlesDistinct ==
    /\ DOMAIN write_buffers \subseteq 1..fh_counter
    /\ DOMAIN open_files \subseteq 1..fh_counter
    /\ \A r \in OpenResults \cup CreateResults :
          r.reply.code = "ok" =>
              /\ r.reply.fh = fh_counter + 1
              /\ r.fhc = r.reply.fh
              /\ DOMAIN r.wb \subseteq DOMAIN write_buffers \cup {r.reply.fh}
              /\ \A fh \in DOMAIN write_buffers :
                    fh \in DOMAIN r.wb /\ r.wb[fh] = write_buffers[fh]
    /\ \A r \in OtherResults \cup FlushResults : HandlesWithinCounter(r)
    /\ \A fh \in DOMAIN write_buffers, offset \in Offsets, data \in WriteData, io \in ScratchIo :
          LET r == write(fh, offset, data, io)
          IN  /\ HandlesWithinCounter(r)
              /\ DOMAIN r.wb = DOMAIN write_buffers
              /\ \A other \in DOMAIN write_buffers \ {fh} : r.wb[other] = write_buffers[other]

(* Two handles are live, each with a scratch file, and the two scratch     *)
(* files differ.                                                           *)
HandlesDistinctWitness ==
    /\ {1, 2} \subseteq DOMAIN write_buffers
    /\ {1, 2} \subseteq DOMAIN open_files
    /\ write_buffers[1].file # write_buffers[2].file
    /\ write_buffers[1].dirty

(* C20.  release of a handle removes its row and nothing else, replies ok  *)
(* and issues no request, also when the scratch file is dirty; in the      *)
(* state it leaves the handle has no row and a write on it replies EBADF.  *)
ReleaseDrops ==
    []( \A fh \in Handles :
          release(fh) = [Base EXCEPT !.wb = MapDel(write_buffers, fh)] )
    /\ [][\A fh \in Handles :
            \A r \in {release(fh)} :
                Leaves(r) =>
                    /\ (fh \notin DOMAIN write_buffers)'
                    /\ \A offset \in Offsets, data \in WriteData, io \in ScratchIo :
                          (write(fh, offset, data, io).reply.code = "EBADF")'
         ]_vars

(* A handle was released, and a dirty scratch file is there to release. *)
ReleaseDropsWitness ==
    /\ \E fh \in 1..fh_counter : fh \notin DOMAIN open_files
    /\ \E fh \in DOMAIN write_buffers : write_buffers[fh].dirty

---------------------------------------------------------------------------
(* The writable opens without O_TRUNC of the inodes of server files. *)
WritableModes == {"O_WRONLY", "O_RDWR"}

(* C21.  When an open with write access and without O_TRUNC of a file that *)
(* is on the server returns a handle, the handle's scratch file holds the  *)
(* server's bytes of the file; a write of B at offset o within a scratch   *)
(* file replaces the range [o, o+len(B)) only, and the flush uploads the   *)
(* whole scratch file.                                                     *)
OpenPrefills ==
    /\ \A ino \in Inodes \ {1}, access \in WritableModes, ok \in BOOLEAN :
          LET ip == inode_path(PIT, ino)
              r == open(ino, access, FALSE, ok)
          IN  ip.some /\ SrvIsFile(srv, ip.path) /\ r.reply.code = "ok" =>
                  /\ r.reply.fh \in DOMAIN r.wb
                  /\ r.wb[r.reply.fh] = [file |-> srv[ip.path].data, path |-> ip.path,
                                         dirty |-> FALSE]
    /\ \A fh \in DOMAIN write_buffers, data \in WriteData, offset \in Offsets :
          LET old == write_buffers[fh].file
              new == write(fh, offset, data, "ok").wb[fh].file
          IN  offset <= Len(old) =>
                  /\ Len(new) = IF Len(old) >= offset + Len(data) THEN Len(old)
                                ELSE offset + Len(data)
                  /\ \A i \in 1..Len(new) :
                        new[i] = IF i > offset /\ i <= offset + Len(data)
                                 THEN data[i - offset] ELSE old[i]

(* The case of C21 that holds: the GET of the open succeeded or the body   *)
(* came from the cache.                                                    *)
OpenPrefillsFetched ==
    \A ino \in Inodes \ {1}, access \in WritableModes :
        LET ip == inode_path(PIT, ino)
            r == open(ino, access, FALSE, TRUE)
        IN  ip.some /\ SrvIsFile(srv, ip.path) /\ r.reply.code = "ok" =>
                /\ r.reply.fh \in DOMAIN r.wb
                /\ r.wb[r.reply.fh] = [file |-> srv[ip.path].data, path |-> ip.path,
                                       dirty |-> FALSE]

---------------------------------------------------------------------------
(* The reads at offset 0 of a whole file through a handle without a write  *)
(* buffer that the server answered: the result and the path read.          *)
ServerReads ==
    {x \in {[r |-> read(open_files[fh], fh, 0, MaxLen, "ok", TRUE, lenient),
             path |-> inode_path(PIT, open_files[fh]).path] :
                fh \in Readers, lenient \in BOOLEAN} :
        x.r.reply.code = "ok" /\ x.r.reqs # <<>>}

(* C22 as the specification states it: after such a read the file-body     *)
(* cache holds an entry for the path with the bytes that were read.        *)
ReadFillsCache ==
    \A x \in ServerReads :
        /\ x.path \in DOMAIN x.r.rc.file_cache
        /\ x.r.rc.file_cache[x.path].data = x.r.reply.data

(* C22, amended.  A read-only open without O_TRUNC sends no request and    *)
(* leaves the file-body cache as it is, and so does a read that the server *)
(* answers: afterwards the cache holds an entry for the path only if it    *)
(* held that entry before.                                                 *)
ReadOnlyLeavesCache ==
    /\ \A ino \in Inodes \ {1}, ok \in BOOLEAN :
          LET r == open(ino, "O_RDONLY", FALSE, ok)
          IN  /\ r.reqs = <<>>
              /\ r.rc.file_cache = file_cache
              /\ r.reply.fh \notin DOMAIN r.wb
    /\ \A x \in ServerReads :
          /\ x.r.reply.data = BytesAt(srv[x.path].data, 0, MaxLen)
          /\ \A path \in DOMAIN x.r.rc.file_cache :
                path \in DOMAIN file_cache /\ x.r.rc.file_cache[path] = file_cache[path]

(* A file of the server is open read-only, caching is on and the cache has *)
(* no entry for the file: the read is answered by the server.              *)
ReadOnlyLeavesCacheWitness ==
    /\ cache_config.file_ttl > 0
    /\ cache_config.max_file_cache_bytes > 0
    /\ \E x \in ServerReads : x.path \notin DOMAIN file_cache /\ x.r.reply.data # <<>>

---------------------------------------------------------------------------
(* The inodes of the files of the server. *)
FileInodes == {ino \in Inodes \ {1} :
                  inode_path(PIT, ino).some /\ SrvIsFile(srv, inode_path(PIT, ino).path)}

(* What setattr(ino, size = 0) on a file would do in this state: it issues *)
(* one PUT with an empty body to the file's path first, and when the PUT   *)
(* succeeds it replies size 0 and leaves the server's file empty.          *)
TruncateNow ==
    \A ino \in FileInodes, fail \in 0..2 :
        LET path == inode_path(PIT, ino).path
            r == setattr(ino, <<0>>, fail)
        IN  /\ r.reqs # <<>>
            /\ r.reqs[1] = Req("PUT", path, <<>>, fail # 1)
            /\ r.reqs[1].ok =>
                  /\ Len(r.reqs) = 1
                  /\ r.reply = make_attr(ino, 0, "RegularFile")
                  /\ r.s[path].data = <<>>

(* In the state that a setattr(ino, size = 0) whose PUT succeeded leaves   *)
(* of a file that had bytes, getattr(ino) replies size 0.                  *)
TruncateLater ==
    \A ino \in {i \in FileInodes : srv[inode_path(PIT, i).path].data # <<>>} :
    \A r \in {setattr(ino, <<0>>, 0)} :
        Leaves(r) =>
            (\A ga \in {getattr(ino, TRUE)} :
                ga.reply.code = "ok" /\ ga.reply.size = 0 /\ ga.reply.ino = ino)'

(* C23.  setattr(ino, size = 0) on a file issues a PUT with an empty body  *)
(* to the file's path and replies size 0, and a getattr of the inode that  *)
(* follows reports size 0 too, not the size of a cached listing.           *)
TruncateThenGetattr == []TruncateNow /\ [][TruncateLater]_vars

(* A file of one byte or more has an inode and the fresh cached listing of *)
(* its directory shows its size: the truncation has a listing to stale.    *)
TruncateThenGetattrWitness ==
    \E ino \in FileInodes :
        LET path == inode_path(PIT, ino).path
        IN  /\ srv[path].data # <<>>
            /\ parent_of(path) \in DOMAIN dir_cache
            /\ Fresh(dir_cache[parent_of(path)].cached_at, cache_config.dir_ttl)
            /\ setattr(ino, <<0>>, 0).reply.size = 0

---------------------------------------------------------------------------
(* The WinFSP dispatcher (src/client/src/windows/remote_fs.rs).  It has no *)
(* inode table and no handle registry: WinFSP passes paths and hands each  *)
(* callback the FileCtx that open or create returned.  write_buf is <<>>   *)
(* for None and <<file>> for Some(file).                                   *)

WinMaxCtx == 1

FileCtx(path, is_dir, write_buf) ==
    [path |-> path, is_dir |-> is_dir, write_buf |-> write_buf]

WinBase ==
    [rc |-> RC, s |-> srv, ctx |-> FileCtx(Root, TRUE, <<>>), code |-> "ok",
     size |-> 0, data |-> <<>>, reqs |-> <<>>]

WinError(code) == [WinBase EXCEPT !.code = code]

(* RemoteFS::stat: None when the listing fails or does not show the name *)
stat(path, ok) ==
    IF path = Root
    THEN [some |-> TRUE, entry |-> [name |-> "", is_dir |-> TRUE, size |-> 0],
          rc |-> RC, reqs |-> <<>>]
    ELSE LET ls == list_dir(RC, srv, parent_of(path), ok)
             found == FindEntry(ls.entries, filename_of(path))
         IN  [some |-> ls.ok /\ found.some, entry |-> found.entry,
              rc |-> ls.rc, reqs |-> ls.reqs]

win_open(path, ok) ==
    LET st == stat(path, ok)
    IN  IF st.some
        THEN [WinBase EXCEPT !.rc = st.rc, !.reqs = st.reqs,
                             !.size = st.entry.size,
                             !.ctx = FileCtx(path, st.entry.is_dir, <<>>)]
        ELSE [WinBase EXCEPT !.rc = st.rc, !.reqs = st.reqs,
                             !.code = "STATUS_OBJECT_NAME_NOT_FOUND"]

(* io is what tempfile() does after the server took the request *)
win_create(path, is_dir, io, ok) ==
    LET made == IF is_dir THEN mkdir_remote(srv, path, ok)
                ELSE upload(srv, path, <<>>, ok)
    IN  IF ~made.ok
        THEN [WinBase EXCEPT !.code = "STATUS_UNSUCCESSFUL", !.reqs = made.reqs]
        ELSE IF ~is_dir /\ io # "ok"
        THEN [WinBase EXCEPT !.s = made.s, !.rc = invalidate(RC, path),
                             !.code = "STATUS_UNSUCCESSFUL", !.reqs = made.reqs]
        ELSE [WinBase EXCEPT !.s = made.s, !.rc = invalidate(RC, path),
                             !.reqs = made.reqs,
                             !.ctx = FileCtx(path, is_dir,
                                             IF is_dir THEN <<>> ELSE << <<>> >>)]

win_read(c, offset, size, io, ok, lenient) ==
    IF c.write_buf # <<>>
    THEN IF io = "ok"
         THEN [WinBase EXCEPT !.ctx = c,
                              !.data = ScratchRead(c.write_buf[1], offset, size)]
         ELSE [WinBase EXCEPT !.ctx = c, !.code = "STATUS_UNSUCCESSFUL"]
    ELSE LET cached == cached_file_data(RC, c.path)
         IN  IF cached.some
             THEN [WinBase EXCEPT !.ctx = c,
                                  !.data = CachedSlice(cached.data, offset, size)]
             ELSE LET fr == fetch_range(srv, c.path, offset, size, ok, lenient)
                  IN  IF fr.ok
                      THEN [WinBase EXCEPT !.ctx = c, !.reqs = fr.reqs,
                                           !.data = SubSeq(fr.data, 1, Min(Len(fr.data), size))]
                      ELSE [WinBase EXCEPT !.ctx = c, !.reqs = fr.reqs,
                                           !.code = "STATUS_UNSUCCESSFUL"]

win_write(c, offset, data, io) ==
    IF c.write_buf = <<>>
    THEN [WinBase EXCEPT !.ctx = c, !.code = "STATUS_INVALID_DEVICE_REQUEST"]
    ELSE IF io # "ok"
    THEN [WinBase EXCEPT !.ctx = c, !.code = "STATUS_UNSUCCESSFUL"]
    ELSE [WinBase EXCEPT !.ctx = [c EXCEPT !.write_buf = <<WriteAt(c.write_buf[1], offset, data)>>],
                         !.size = Len(data)]

(* wb.set_len(0) comes first and stays when the upload fails *)
win_overwrite(c, io, ok) ==
    IF c.write_buf # <<>> /\ io # "ok"
    THEN [WinBase EXCEPT !.ctx = c, !.code = "STATUS_UNSUCCESSFUL"]
    ELSE LET c1 == IF c.write_buf # <<>> THEN [c EXCEPT !.write_buf = << <<>> >>] ELSE c
             up == upload(srv, c.path, <<>>, ok)
         IN  IF up.ok
             THEN [WinBase EXCEPT !.ctx = c1, !.s = up.s, !.rc = invalidate(RC, c.path),
                                  !.reqs = up.reqs]
             ELSE [WinBase EXCEPT !.ctx = c1, !.code = "STATUS_UNSUCCESSFUL",
                                  !.reqs = up.reqs]

(* File::set_len: cuts the file, or extends it with zero bytes *)
SetLen(file, n) ==
    [i \in 1..n |-> IF i <= Len(file) THEN file[i] ELSE 0]

win_set_file_size(c, new_size, io) ==
    IF c.write_buf # <<>> /\ io # "ok"
    THEN [WinBase EXCEPT !.ctx = c, !.code = "STATUS_UNSUCCESSFUL"]
    ELSE [WinBase EXCEPT !.size = new_size,
                         !.ctx = IF c.write_buf # <<>>
                                 THEN [c EXCEPT !.write_buf = <<SetLen(c.write_buf[1], new_size)>>]
                                 ELSE c]

(* delete is bit 0x01 of the flags; the results of the requests are dropped *)
win_cleanup(c, delete, io, ok) ==
    IF delete
    THEN LET del == delete_remote(srv, c.path, ok)
         IN  [WinBase EXCEPT !.ctx = c, !.s = del.s, !.rc = invalidate(RC, c.path),
                             !.reqs = del.reqs]
    ELSE IF c.write_buf # <<>> /\ io = "ok" /\ c.write_buf[1] # <<>>
    THEN LET up == upload(srv, c.path, c.write_buf[1], ok)
         IN  [WinBase EXCEPT !.ctx = c, !.s = up.s, !.rc = invalidate(RC, c.path),
                             !.reqs = up.reqs]
    ELSE [WinBase EXCEPT !.ctx = c]

win_rename(old, new, fail) ==
    LET ff == fetch_file(RC, srv, old, fail # 1)
        up == upload(srv, new, ff.data, fail # 2)
        del == delete_remote(up.s, old, fail # 3)
    IN  IF ~ff.ok
        THEN [WinBase EXCEPT !.rc = ff.rc, !.code = "STATUS_UNSUCCESSFUL", !.reqs = ff.reqs]
        ELSE IF ~up.ok
        THEN [WinBase EXCEPT !.rc = ff.rc, !.code = "STATUS_UNSUCCESSFUL",
                             !.reqs = ff.reqs \o up.reqs]
        ELSE IF ~del.ok
        THEN [WinBase EXCEPT !.rc = ff.rc, !.s = up.s, !.code = "STATUS_UNSUCCESSFUL",
                             !.reqs = ff.reqs \o up.reqs \o del.reqs]
        ELSE [WinBase EXCEPT !.rc = invalidate(invalidate(ff.rc, old), new), !.s = del.s,
                             !.reqs = ff.reqs \o up.reqs \o del.reqs]

(* The step leaves the client and the server as the WinFSP callback says. *)
WinLeaves(r) ==
    /\ dir_cache' = r.rc.dir_cache
    /\ file_cache' = r.rc.file_cache
    /\ file_cache_size' = r.rc.file_cache_size
    /\ srv' = r.s
    /\ UNCHANGED <<inode_counter, inode_to_path, path_to_inode, write_buffers,
                   fh_counter, cache_config, now, open_files, par, calc, track>>

WinPaths == {<<"a">>, <<"b">>}
WinData == {<<1>>}
FreeCtx == {id \in 1..WinMaxCtx : id \notin DOMAIN contexts}

(* WinFSP keeps the FileCtx of a call that succeeded under a new id. *)
WinKeep(r) ==
    IF r.code = "ok"
    THEN /\ FreeCtx # {}
         /\ contexts' = MapPut(contexts, CHOOSE id \in FreeCtx : \A j \in FreeCtx : id <= j,
                               r.ctx)
    ELSE UNCHANGED contexts

WinOpen ==
    \E path \in WinPaths, ok \in BOOLEAN :
        LET r == win_open(path, ok)
        IN  WinLeaves(r) /\ WinKeep(r) /\ UNCHANGED unsaved

WinCreate ==
    \E path \in WinPaths, is_dir \in BOOLEAN, io \in {"ok", "io_err"}, ok \in BOOLEAN :
        LET r == win_create(path, is_dir, io, ok)
        IN  WinLeaves(r) /\ WinKeep(r) /\ UNCHANGED unsaved

WinRead ==
    \E id \in DOMAIN contexts, offset \in Offsets, size \in Sizes, f \in ReadFaults :
        LET r == win_read(contexts[id], offset, size, f.io, f.ok, f.lenient)
        IN  WinLeaves(r) /\ UNCHANGED <<contexts, unsaved>>

WinWrite ==
    \E id \in DOMAIN contexts, offset \in Offsets, data \in WinData, io \in ScratchIo :
        LET r == win_write(contexts[id], offset, data, io)
        IN  /\ offset + Len(data) <= MaxLen
            /\ WinLeaves(r)
            /\ contexts' = [contexts EXCEPT ![id] = r.ctx]
            /\ unsaved' = IF r.code = "ok" THEN unsaved \cup {id} ELSE unsaved

WinSetFileSize ==
    \E id \in DOMAIN contexts, new_size \in 0..MaxLen, io \in {"ok", "io_err"} :
        LET r == win_set_file_size(contexts[id], new_size, io)
        IN  /\ ~contexts[id].is_dir
            /\ WinLeaves(r)
            /\ contexts' = [contexts EXCEPT ![id] = r.ctx]
            /\ unsaved' = IF r.ctx # contexts[id] THEN unsaved \cup {id} ELSE unsaved

(* A successful overwrite has uploaded the empty file that the buffer now  *)
(* is; one that failed at the upload has cut the buffer all the same.      *)
WinOverwrite ==
    \E id \in DOMAIN contexts, io \in {"ok", "io_err"}, ok \in BOOLEAN :
        LET r == win_overwrite(contexts[id], io, ok)
        IN  /\ ~contexts[id].is_dir
            /\ WinLeaves(r)
            /\ contexts' = [contexts EXCEPT ![id] = r.ctx]
            /\ unsaved' = IF r.code = "ok" THEN unsaved \ {id}
                          ELSE IF r.ctx # contexts[id] THEN unsaved \cup {id}
                          ELSE unsaved

(* WinFSP calls cleanup when the handle is closed, and close after it. *)
WinCleanupClose ==
    \E id \in DOMAIN contexts, delete \in BOOLEAN, io \in {"ok", "io_err"}, ok \in BOOLEAN :
        LET r == win_cleanup(contexts[id], delete, io, ok)
        IN  /\ WinLeaves(r)
            /\ contexts' = MapDel(contexts, id)
            /\ unsaved' = unsaved \ {id}

WinRename ==
    \E old \in WinPaths, new \in WinPaths, fail \in 0..3 :
        LET r == win_rename(old, new, fail)
        IN  /\ old # new
            /\ WinLeaves(r)
            /\ UNCHANGED <<contexts, unsaved>>

InitWin == InitWith({(<<"a">> :> File(<<1>>))})

NextWin ==
    \/ WinOpen \/ WinCreate \/ WinRead \/ WinWrite \/ WinSetFileSize \/ WinOverwrite
    \/ WinCleanupClose \/ WinRename \/ Tick

SpecWin == InitWin /\ [][NextWin]_vars

---------------------------------------------------------------------------
(* The requests of a rename of old, whose bytes are data, to new: a GET of *)
(* old, then a PUT of the bytes to new, then a DELETE of old, each one     *)
(* only after the one before it succeeded.                                 *)
RenameOrder(reqs, old, new, data) ==
    /\ Len(reqs) \in 1..3
    /\ reqs[1].method = "GET" /\ reqs[1].path = old
    /\ Len(reqs) >= 2 =>
          /\ reqs[1].ok
          /\ reqs[2].method = "PUT" /\ reqs[2].path = new /\ reqs[2].body = data
    /\ Len(reqs) >= 3 =>
          /\ reqs[2].ok
          /\ reqs[3].method = "DELETE" /\ reqs[3].path = old

(* The server s has the bytes at old, at new or at both. *)
BytesKept(s, old, new, data) ==
    \/ SrvIsFile(s, old) /\ s[old].data = data
    \/ SrvIsFile(s, new) /\ s[new].data = data

(* The FUSE rename of a file of the server to another path. *)
UnixRenameGetPutDelete ==
    \A parent \in Parents, name \in Names, newparent \in Parents, newname \in Names,
       fail \in 0..3 :
        LET old == child_path(PIT, parent, name).full
            new == child_path(PIT, newparent, newname).full
            r == rename(parent, name, newparent, newname, fail)
        IN  old # new /\ SrvIsFile(srv, old) =>
                /\ RenameOrder(r.reqs, old, new, srv[old].data)
                /\ r.reply.code = "ok" <=> (Len(r.reqs) = 3 /\ r.reqs[3].ok)
                /\ BytesKept(r.s, old, new, srv[old].data)

(* The WinFSP rename of a file of the server to another path: its requests *)
(* and what it leaves on the server.                                       *)
WinRenameGetPutDelete ==
    \A old \in WinPaths, new \in WinPaths, fail \in 0..3 :
        LET r == win_rename(old, new, fail)
        IN  old # new /\ SrvIsFile(srv, old) =>
                RenameOrder(r.reqs, old, new, srv[old].data)

WinRenameKeepsBytes ==
    \A old \in WinPaths, new \in WinPaths, fail \in 0..3 :
        LET r == win_rename(old, new, fail)
        IN  old # new /\ SrvIsFile(srv, old) =>
                /\ r.code = "ok" => ~SrvIsFile(r.s, old)
                /\ BytesKept(r.s, old, new, srv[old].data)

(* C24.  rename issues a GET of the old path, then a PUT of the same bytes *)
(* to the new path, then a DELETE of the old path, each only after the one *)
(* before succeeded; whether it replies success or failure, the bytes the  *)
(* file had are afterwards on the server at the old path, the new path or  *)
(* both.  On FUSE and on WinFSP.                                           *)
RenameGetPutDelete ==
    /\ UnixRenameGetPutDelete
    /\ WinRenameGetPutDelete
    /\ WinRenameKeepsBytes

---------------------------------------------------------------------------
(* What readdir would reply in this state.  At offset 0: "." at 1 and ".." *)
(* at 2, then, when the listing came, its entries in order, entry i (from  *)
(* 0) at offset i + 3, each with the inode of its path, which is 2 or more *)
(* and differs from the others'; only the dots when the listing failed.    *)
(* At another offset: nothing.  The reply is ok in every case.             *)
ReaddirNow ==
    \A ino \in Parents, ok \in BOOLEAN :
        LET path == inode_path(PIT, ino).path
            ls == list_dir(RC, srv, path, ok)
            r == readdir(ino, 0, ok)
            rows == r.reply.entries
        IN  /\ r.reply.code = "ok"
            /\ Len(rows) = IF ls.ok THEN 2 + Len(ls.entries) ELSE 2
            /\ rows[1] = [ino |-> ino, offset |-> 1, kind |-> "Directory", name |-> "."]
            /\ rows[2] = [ino |-> ino, offset |-> 2, kind |-> "Directory", name |-> ".."]
            /\ \A i \in 3..Len(rows) :
                  LET child == join_path(path, ls.entries[i - 2].name)
                  IN  /\ rows[i].name = ls.entries[i - 2].name
                      /\ rows[i].kind = KindOf(ls.entries[i - 2])
                      /\ rows[i].offset = i
                      /\ rows[i].ino >= 2
                      /\ child \in DOMAIN r.pit.path_to_inode
                      /\ r.pit.path_to_inode[child] = rows[i].ino
                      /\ child \in DOMAIN path_to_inode => rows[i].ino = path_to_inode[child]
                      /\ \A j \in 3..Len(rows) : rows[j].ino = rows[i].ino => j = i
            /\ \A offset \in 1..MaxLen : readdir(ino, offset, ok) = Base

(* In the state a readdir at offset 0 that allocated inodes leaves, the    *)
(* same readdir replies the same rows.                                     *)
ReaddirLater ==
    \A ino \in Parents :
    \A r \in {readdir(ino, 0, TRUE)} :
        r.pit # PIT /\ Leaves(r) =>
            (readdir(ino, 0, TRUE).reply.entries = r.reply.entries)'

---------------------------------------------------------------------------
(* The reads of an open handle at an offset at or beyond the end of the    *)
(* data of the path that read takes: "buffer" when the handle has a write  *)
(* buffer, else "cache" when the path has a fresh cached body, else        *)
(* "range" when the server has the file.  The scratch file answers and the *)
(* request is delivered; lenient is the server's answer to a range that    *)
(* starts at or beyond the end: an empty 2xx body, or an error status.     *)
PastEndReads(lenient) ==
    {x \in {[r |-> read(open_files[fh], fh, offset, size, "ok", TRUE, lenient),
             fh |-> fh, offset |-> offset,
             ip |-> inode_path(PIT, open_files[fh])] :
                fh \in DOMAIN open_files, offset \in Offsets, size \in Sizes} :
        IF x.fh \in DOMAIN write_buffers
        THEN x.offset >= Len(write_buffers[x.fh].file)
        ELSE /\ x.ip.some
             /\ IF cached_file_data(RC, x.ip.path).some
                THEN x.offset >= Len(cached_file_data(RC, x.ip.path).data)
                ELSE SrvIsFile(srv, x.ip.path) /\ x.offset >= Len(srv[x.ip.path].data)}

(* C26.  A read at an offset at or beyond the end of the data replies with *)
(* an empty successful reply on each path: from the write buffer, from a   *)
(* fresh cached body and from a byte-range request.                        *)
ReadPastEnd ==
    \A lenient \in BOOLEAN : \A x \in PastEndReads(lenient) : x.r.reply = DataReply(<<>>)

(* The part of C26 that holds whatever the server does: the write buffer   *)
(* and the cached body.                                                    *)
ReadPastEndLocal ==
    \A lenient \in BOOLEAN : \A x \in PastEndReads(lenient) :
        x.r.reqs = <<>> => x.r.reply = DataReply(<<>>)

(* The byte-range path of C26 holds against a server that answers a range  *)
(* beyond the end with an empty body.                                      *)
ReadPastEndLenient ==
    \A x \in PastEndReads(TRUE) : x.r.reply = DataReply(<<>>)

---------------------------------------------------------------------------
(* Every fresh cached listing is the server's listing of that directory.   *)
FreshListingsCurrent(rc, s) ==
    \A path \in DOMAIN rc.dir_cache :
        Fresh(rc.dir_cache[path].cached_at, cache_config.dir_ttl)
            => SrvIsDir(s, path) /\ rc.dir_cache[path].entries = SrvList(s, path)

(* Every fresh cached body of a file the server has is that file's bytes.  *)
FreshBodiesCurrent(rc, s) ==
    \A path \in DOMAIN rc.file_cache :
        Fresh(rc.file_cache[path].cached_at, cache_config.file_ttl) /\ SrvIsFile(s, path)
            => rc.file_cache[path].data = s[path].data

(* C27.  With this client the server's only writer, in the state every     *)
(* callback leaves each fresh directory-cache entry is the server's        *)
(* current listing and each fresh file-body entry of an existing file is   *)
(* the server's current bytes.                                             *)
CachesCurrent ==
    FreshListingsCurrent(RC, srv) /\ FreshBodiesCurrent(RC, srv)

---------------------------------------------------------------------------
(* The handle fh has a write buffer with dirty cleared in the table wb.    *)
CleanBuffer(wb, fh) == fh \in DOMAIN wb /\ ~wb[fh].dirty

(* The FUSE side of C28, for the inodes the table binds. *)
UnixOpenBuffers ==
    /\ \A ino \in DOMAIN inode_to_path, access \in AccessModes,
          truncate \in BOOLEAN, ok \in BOOLEAN :
          LET r == open(ino, access, truncate, ok)
          IN  r.reply.code = "ok" =>
                  IF access \in WritableModes \/ truncate
                  THEN CleanBuffer(r.wb, r.reply.fh)
                  ELSE r.reply.fh \notin DOMAIN r.wb
    /\ \A parent \in Parents, name \in Names, ok \in BOOLEAN :
          LET r == create(parent, name, ok)
          IN  r.reply.code = "ok" => CleanBuffer(r.wb, r.reply.fh)

(* The FUSE open of an inode the table no longer binds. *)
UnixOpenUnboundBuffers ==
    \A ino \in Inodes \ DOMAIN inode_to_path, access \in WritableModes :
        LET r == open(ino, access, FALSE, TRUE)
        IN  r.reply.code = "ok" => CleanBuffer(r.wb, r.reply.fh)

(* The WinFSP side of C28: the FileCtx of an open with write access has a  *)
(* write buffer, so a write through it is not refused for want of one.     *)
(* open receives the granted access and does not look at it.               *)
WinOpenBuffers ==
    /\ \A path \in WinPaths, access \in WritableModes, ok \in BOOLEAN :
          LET r == win_open(path, ok)
          IN  r.code = "ok" /\ ~r.ctx.is_dir =>
                  /\ r.ctx.write_buf # <<>>
                  /\ \A data \in WinData :
                        win_write(r.ctx, 0, data, "ok").code # "STATUS_INVALID_DEVICE_REQUEST"
    /\ \A path \in WinPaths, ok \in BOOLEAN :
          LET r == win_create(path, FALSE, "ok", ok)
          IN  r.code = "ok" => r.ctx.write_buf # <<>>

(* C28.  Every open with write access or truncation and every create of a  *)
(* file returns a handle that has a write buffer with dirty cleared, under *)
(* FUSE and under WinFSP; a read-only open without truncation returns a    *)
(* handle without a write buffer.                                          *)
OpenBuffers ==
    UnixOpenBuffers /\ UnixOpenUnboundBuffers /\ WinOpenBuffers

---------------------------------------------------------------------------
(* C29.  A read that sends a byte-range request is served nothing from the *)
(* caches and leaves them as they are: the directory cache, the file-body  *)
(* cache and file_cache_size are the same after the read as before it,     *)
(* whether the request succeeds or fails.                                  *)
RangeReadBypassesCaches ==
    \A r \in ReadResults :
        r.reqs # <<>> =>
            /\ \A i \in 1..Len(r.reqs) : r.reqs[i].method = "RANGE"
            /\ r.served = <<>>
            /\ r.rc.dir_cache = dir_cache
            /\ r.rc.file_cache = file_cache
            /\ r.rc.file_cache_size = file_cache_size

(* Caching is on, both caches hold entries and a read is answered bytes by *)
(* a byte-range request.                                                   *)
RangeReadBypassesCachesWitness ==
    /\ cache_config.file_ttl > 0
    /\ cache_config.max_file_cache_bytes > 0
    /\ dir_cache # EmptyMap
    /\ file_cache # EmptyMap
    /\ \E r \in ReadResults :
          r.reqs # <<>> /\ r.reply.code = "ok" /\ r.reply.data # <<>>

(* The WinFSP read that sends a byte-range request leaves the caches as    *)
(* they are too.                                                           *)
WinRangeReadBypassesCaches ==
    \A id \in DOMAIN contexts, offset \in Offsets, size \in Sizes,
       ok \in BOOLEAN, lenient \in BOOLEAN :
        LET r == win_read(contexts[id], offset, size, "ok", ok, lenient)
        IN  r.reqs # <<>> => r.rc = RC

---------------------------------------------------------------------------
(* The full-file fetches that miss the cache in the current state and are  *)
(* answered by the server, with the entries each one evicts and keeps.     *)
(* The entry of the fetched path itself is replaced by the new body.       *)
FetchMisses ==
    {x \in {[path |-> path, r |-> fetch_file(RC, srv, path, TRUE)] :
                path \in {p \in DOMAIN srv : SrvIsFile(srv, p)}} :
        x.r.reqs # <<>>}

Evicted(x) == {k \in DOMAIN file_cache \ {x.path} : k \notin DOMAIN x.r.rc.file_cache}

Survivors(x) == (DOMAIN file_cache \ {x.path}) \ Evicted(x)

(* The entries the cache still holds when the entry k is the oldest one. *)
NotOlder(k) == {q \in DOMAIN file_cache : file_cache[q].seq >= file_cache[k].seq}

(* No entry is evicted while an older one survives. *)
EvictsOldestFirst ==
    \A x \in FetchMisses : \A k \in Evicted(x), q \in Survivors(x) :
        file_cache[k].seq < file_cache[q].seq

(* An entry is evicted only while the bytes in the cache and the new body  *)
(* exceed the budget; nothing is evicted when the new body fits.           *)
EvictsOnlyOverBudget ==
    \A x \in FetchMisses :
        /\ BodyBytes(file_cache, DOMAIN file_cache) + Len(x.r.data)
              <= cache_config.max_file_cache_bytes => Evicted(x) = {}
        /\ \A k \in Evicted(x) :
              BodyBytes(file_cache, NotOlder(k)) + Len(x.r.data)
                  > cache_config.max_file_cache_bytes

(* C30.  A full-file fetch that misses the cache evicts entries in         *)
(* ascending order of insertion and only while the bytes in the cache plus *)
(* the new body exceed max_file_cache_bytes: no entry is evicted while an  *)
(* older one survives, and none when the new body already fits.            *)
EvictionOrder ==
    EvictsOldestFirst /\ EvictsOnlyOverBudget

(* C35.  After every operation of the remote client, file_cache_size is    *)
(* the sum of the lengths of the bodies that the file-body cache holds,    *)
(* also after a fetch of a path whose cached entry has expired.            *)
SizeCounterExact ==
    file_cache_size = BodyBytes(file_cache, DOMAIN file_cache)

(* What fetch_file does: it evicts while the counter file_cache_size and   *)
(* the new body exceed the budget.                                         *)
EvictsOnlyOverCounter ==
    \A x \in FetchMisses :
        file_cache_size + Len(x.r.data) <= cache_config.max_file_cache_bytes
            => Evicted(x) = {}

---------------------------------------------------------------------------
(* A request that changes the server. *)
Mutating(req) == req.method \in {"PUT", "MKDIR", "DELETE"}

(* C31.  setattr with a size other than 0, or with no size at all, sends   *)
(* no mutating request, leaves the server and the write buffers as they    *)
(* are, and replies with exactly what getattr of the inode replies.        *)
SetattrOtherSizes ==
    \A ino \in Inodes, size \in Truncations \ {<<0>>}, fail \in 0..2 :
        LET r == setattr(ino, size, fail)
            g == getattr(ino, fail # 2)
        IN  /\ \A i \in 1..Len(r.reqs) : ~Mutating(r.reqs[i])
            /\ r.s = srv
            /\ r.wb = write_buffers
            /\ r.reply = g.reply
            /\ r.reqs = g.reqs

(* A file with bytes on the server is bound to an inode, and setattr with  *)
(* size 1 replies with the file's size as it is.                           *)
SetattrOtherSizesWitness ==
    \E ino \in FileInodes :
        LET r == setattr(ino, <<1>>, 0)
        IN  /\ r.reply.code = "ok"
            /\ r.reply.size = Len(srv[inode_to_path[ino]].data)
            /\ r.reply.size > 1

---------------------------------------------------------------------------
(* cleanup with the delete flag sends a DELETE for the path of the handle  *)
(* and leaves no cache entry of the path; the path is off the server when  *)
(* the request succeeded.                                                  *)
CleanupDeletes ==
    \A id \in DOMAIN contexts, io \in {"ok", "io_err"}, ok \in BOOLEAN :
        LET c == contexts[id]
            r == win_cleanup(c, TRUE, io, ok)
        IN  /\ Len(r.reqs) = 1
            /\ r.reqs[1].method = "DELETE" /\ r.reqs[1].path = c.path
            /\ r.reqs[1].ok => c.path \notin DOMAIN r.s
            /\ Invalidated(r.rc, c.path)

(* The PUT requests of the cleanup of the handle id without the delete     *)
(* flag, the scratch file being readable.                                  *)
CleanupPuts(id, ok) ==
    LET r == win_cleanup(contexts[id], FALSE, "ok", ok)
    IN  {i \in 1..Len(r.reqs) : r.reqs[i].method = "PUT"}

(* cleanup without the delete flag uploads only from a handle that was     *)
(* written or resized since its last upload.                               *)
CleanupUploadsOnlyUnsaved ==
    \A id \in DOMAIN contexts, ok \in BOOLEAN :
        CleanupPuts(id, ok) # {} => id \in unsaved

(* cleanup without the delete flag uploads from every handle that was      *)
(* written or resized since its last upload.                               *)
CleanupUploadsAllUnsaved ==
    \A id \in DOMAIN contexts, ok \in BOOLEAN :
        id \in unsaved => CleanupPuts(id, ok) # {}

(* C32.  Under WinFSP, cleanup with the delete flag deletes the remote     *)
(* path and invalidates its cache entries; cleanup without the delete flag *)
(* uploads the write buffer if and only if the handle has bytes written or *)
(* truncated since the last upload, and nothing for a handle never written.*)
CleanupUploadsUnsaved ==
    CleanupDeletes /\ CleanupUploadsOnlyUnsaved /\ CleanupUploadsAllUnsaved

(* After the cleanup of a handle that was written or resized since its    *)
(* last upload, the file on the server holds the bytes of the handle's     *)
(* buffer.                                                                 *)
CleanupSavesBuffer ==
    \A id \in unsaved :
        LET c == contexts[id]
            r == win_cleanup(c, FALSE, "ok", TRUE)
        IN  SrvIsFile(r.s, c.path) => r.s[c.path].data = c.write_buf[1]

---------------------------------------------------------------------------
(* C33.  flush on a handle whose buffer is not dirty, or that has no       *)
(* buffer, replies ok, sends no request and leaves the dirty flag, the     *)
(* scratch contents, the server and both caches as they are.               *)
CleanFlushNoOp ==
    \A fh \in Handles, io \in FlushIo, ok \in BOOLEAN :
        fh \notin DOMAIN write_buffers \/ ~write_buffers[fh].dirty =>
            LET r == flush(fh, io, ok)
            IN  /\ r.reply.code = "ok"
                /\ r.reqs = <<>>
                /\ r.wb = write_buffers
                /\ r.rc = RC
                /\ r.s = srv

(* A handle has a clean buffer with bytes while the caches hold entries,   *)
(* and another handle has no buffer.                                       *)
CleanFlushNoOpWitness ==
    /\ \E fh \in DOMAIN write_buffers :
          ~write_buffers[fh].dirty /\ write_buffers[fh].file # <<>>
    /\ Readers # {}
    /\ dir_cache # EmptyMap
    /\ file_cache # EmptyMap

---------------------------------------------------------------------------
(* What create, mkdir, unlink, rmdir and rename would do in this state     *)
(* when one of their requests fails.                                       *)
FailedMutations ==
    {r \in CreateResults \cup MkdirResults \cup UnlinkResults \cup RmdirResults
           \cup RenameResults : FailedRequest(r)}

(* C34.  When the HTTP request of create, mkdir, unlink, rmdir or rename   *)
(* fails, the callback leaves the path/inode table and the write-buffer    *)
(* registry as they are: no inode is allocated, removed or rebound and no  *)
(* handle or buffer is created.                                            *)
FailedMutationKeepsTables ==
    \A r \in FailedMutations :
        /\ r.pit = PIT
        /\ r.wb = write_buffers
        /\ r.fhc = fh_counter

(* A file is bound to an inode, a handle has a write buffer, and a rename  *)
(* of the file fails at the DELETE after its PUT changed the server.       *)
FailedMutationKeepsTablesWitness ==
    /\ write_buffers # EmptyMap
    /\ \E parent \in Parents, name \in Names, newname \in Names :
          LET r == rename(parent, name, parent, newname, 3)
          IN  /\ child_path(PIT, parent, name).full \in DOMAIN path_to_inode
              /\ FailedRequest(r)
              /\ r.s # srv

---------------------------------------------------------------------------
(* After the flush result r of the handle fh, the server's file at the     *)
(* path of the buffer holds the bytes of the scratch file.                 *)
ServerHasScratch(r, fh) ==
    /\ SrvIsFile(r.s, write_buffers[fh].path)
    /\ r.s[write_buffers[fh].path].data = write_buffers[fh].file

(* C36.  Whenever flush on a handle with a write buffer replies ok, the    *)
(* server's content for the buffer's path is the scratch file's content at *)
(* that moment, however the handle was opened and whatever other handles   *)
(* of the path have flushed in between.                                    *)
FlushOkSavesScratch ==
    \A fh \in DOMAIN write_buffers, io \in FlushIo, ok \in BOOLEAN :
        LET r == flush(fh, io, ok)
        IN  r.reply.code = "ok" => ServerHasScratch(r, fh)

(* The case of C36 that holds: the buffer is dirty and the size of the     *)
(* scratch file can be read.                                               *)
DirtyFlushOkSavesScratch ==
    \A fh \in DOMAIN write_buffers, io \in ScratchIo, ok \in BOOLEAN :
        LET r == flush(fh, io, ok)
        IN  write_buffers[fh].dirty /\ r.reply.code = "ok" => ServerHasScratch(r, fh)

(* C36 for the flushes of a dirty buffer, the metadata call failing        *)
(* included.                                                               *)
DirtyFlushAnyIoSavesScratch ==
    \A fh \in DOMAIN write_buffers, io \in FlushIo, ok \in BOOLEAN :
        LET r == flush(fh, io, ok)
        IN  write_buffers[fh].dirty /\ r.reply.code = "ok" => ServerHasScratch(r, fh)

---------------------------------------------------------------------------
(* Every mutating request of the result r is for one of the paths, and     *)
(* there is none when a parent is not bound.                               *)
MutatesOnly(r, parents, paths) ==
    \A i \in 1..Len(r.reqs) :
        Mutating(r.reqs[i]) =>
            /\ parents \subseteq DOMAIN inode_to_path
            /\ r.reqs[i].path \in paths

(* The path of name under the parent inode, when the parent is bound. *)
PathUnder(parent, name) ==
    IF parent \in DOMAIN inode_to_path
    THEN {join_path(inode_to_path[parent], name)}
    ELSE {}

(* What C37 says of the parents in ps. *)
MutationsUnder(ps) ==
    /\ \A parent \in ps, name \in Names, ok \in BOOLEAN :
          \A r \in {create(parent, name, ok), mkdir(parent, name, ok),
                    unlink(parent, name, ok), rmdir(parent, name, ok)} :
              MutatesOnly(r, {parent}, PathUnder(parent, name))
    /\ \A parent \in ps, name \in Names, newparent \in ps, newname \in Names,
          fail \in 0..3 :
          MutatesOnly(rename(parent, name, newparent, newname, fail),
                      {parent, newparent},
                      PathUnder(parent, name) \cup PathUnder(newparent, newname))

(* C37.  create, mkdir, unlink, rmdir and rename send a mutating request   *)
(* only for the path join(path_of(parent), name); when the parent inode    *)
(* has no binding in the path/inode table, no PUT, MKDIR or DELETE is sent *)
(* for any path.                                                           *)
MutationsUnderParent == MutationsUnder(Parents)

(* The part of C37 that holds: the parents that the table binds. *)
MutationsUnderBoundParent == MutationsUnder(Parents \cap DOMAIN inode_to_path)

---------------------------------------------------------------------------
(* WinFSP callbacks on parallel threads.  RemoteFS holds the RemoteClient  *)
(* in a Mutex; a callback takes the lock, sends its requests and updates   *)
(* the caches, and the guard is dropped where its scope ends or where the  *)
(* ? operator returns.  Each request and each cache update is a step of    *)
(* its own, so that the threads interleave wherever the lock lets them.    *)
(* par.th[t] is the callback of thread t: its place pc, the callback op,   *)
(* its paths, the body it fetched (got) and the listing it was sent (ls).  *)
(* par.partial tells that a rename returned after its PUT and before its   *)
(* invalidation.                                                           *)

(* An interleaving of the threads with the lock going to a thread while    *)
(* another one holds it.                                                   *)
RcLockShared(lock, t) == [some |-> TRUE, lock |-> t]

(* self.rc.lock().unwrap(): the guard, once no thread holds the lock *)
rc_lock(lock, t) ==
    IF lock = 0 THEN [some |-> TRUE, lock |-> t] ELSE [some |-> FALSE, lock |-> lock]

ParOps == {"list", "create", "overwrite", "cleanup_delete", "cleanup_upload", "rename"}

(* The thread t is between taking the lock and dropping the guard. *)
InCritical(t) == par.th[t].pc # "idle"

ParKeep ==
    UNCHANGED <<inode_counter, inode_to_path, path_to_inode, write_buffers, fh_counter,
                cache_config, now, open_files, contexts, unsaved, calc, track>>

(* The thread t goes to pc with the fields of its callback as in th. *)
ParAt(t, th) == par' = [par EXCEPT !.th[t] = th]

(* The guard of thread t is dropped and its callback returns. *)
ParReturn(t, partial) ==
    par' = [par EXCEPT !.th[t] = ParIdle, !.partial = @ \/ partial,
                       !.lock = IF @ = t THEN 0 ELSE @]

(* A callback starts on thread t and takes the lock. *)
ParBegin(t) ==
    \E op \in ParOps, path \in WinPaths, new \in WinPaths :
        LET g == rc_lock(par.lock, t)
        IN  /\ par.th[t].pc = "idle"
            /\ op = "rename" => path # new
            /\ op # "rename" => new = path
            /\ g.some
            /\ par' = [par EXCEPT !.lock = g.lock,
                                  !.th[t] = [ParIdle EXCEPT !.pc = "locked", !.op = op,
                                                            !.path = path, !.new = new]]
            /\ UNCHANGED <<srv, dir_cache, file_cache, file_cache_size>>
            /\ ParKeep

(* list_dir of the root, as stat and read_directory call it: the listing   *)
(* is served from the cache, or requested from the server.                 *)
ParListGet(t) ==
    \E ok \in BOOLEAN :
        LET th == par.th[t]
            ls == list_dir(RC, srv, Root, ok)
        IN  /\ th.pc = "locked" /\ th.op = "list"
            /\ IF ls.reqs = <<>> \/ ~ls.ok
               THEN ParReturn(t, FALSE)
               ELSE ParAt(t, [th EXCEPT !.pc = "listed", !.ls = ls.entries])
            /\ UNCHANGED <<srv, dir_cache, file_cache, file_cache_size>>
            /\ ParKeep

(* list_dir inserts the listing it was sent. *)
ParListPut(t) ==
    LET th == par.th[t]
    IN  /\ th.pc = "listed"
        /\ dir_cache' = MapPut(dir_cache, Root, [entries |-> th.ls, cached_at |-> now])
        /\ ParReturn(t, FALSE)
        /\ UNCHANGED <<srv, file_cache, file_cache_size>>
        /\ ParKeep

(* The request of create, overwrite and cleanup.  create and overwrite     *)
(* return at a failed request; cleanup drops the result.                   *)
ParMutate(t) ==
    \E ok \in BOOLEAN :
        LET th == par.th[t]
            m == IF th.op = "cleanup_delete" THEN delete_remote(srv, th.path, ok)
                 ELSE IF th.op = "cleanup_upload" THEN upload(srv, th.path, <<1>>, ok)
                 ELSE upload(srv, th.path, <<>>, ok)
        IN  /\ th.pc = "locked"
            /\ th.op \in {"create", "overwrite", "cleanup_delete", "cleanup_upload"}
            /\ srv' = m.s
            /\ IF ~m.ok /\ th.op \in {"create", "overwrite"}
               THEN ParReturn(t, FALSE)
               ELSE ParAt(t, [th EXCEPT !.pc = "mutated"])
            /\ UNCHANGED <<dir_cache, file_cache, file_cache_size>>
            /\ ParKeep

(* rename: fetch_file of the old path *)
ParFetch(t) ==
    \E ok \in BOOLEAN :
        LET th == par.th[t]
            ff == fetch_file(RC, srv, th.path, ok)
        IN  /\ th.pc = "locked" /\ th.op = "rename"
            /\ dir_cache' = ff.rc.dir_cache
            /\ file_cache' = ff.rc.file_cache
            /\ file_cache_size' = ff.rc.file_cache_size
            /\ IF ff.ok THEN ParAt(t, [th EXCEPT !.pc = "fetched", !.got = ff.data])
               ELSE ParReturn(t, FALSE)
            /\ UNCHANGED srv
            /\ ParKeep

(* rename: upload to the new path *)
ParPut(t) ==
    \E ok \in BOOLEAN :
        LET th == par.th[t]
            up == upload(srv, th.new, th.got, ok)
        IN  /\ th.pc = "fetched"
            /\ srv' = up.s
            /\ IF up.ok THEN ParAt(t, [th EXCEPT !.pc = "put"]) ELSE ParReturn(t, FALSE)
            /\ UNCHANGED <<dir_cache, file_cache, file_cache_size>>
            /\ ParKeep

(* rename: delete_remote of the old path *)
ParDelete(t) ==
    \E ok \in BOOLEAN :
        LET th == par.th[t]
            del == delete_remote(srv, th.path, ok)
        IN  /\ th.pc = "put"
            /\ srv' = del.s
            /\ IF del.ok THEN ParAt(t, [th EXCEPT !.pc = "mutated"]) ELSE ParReturn(t, TRUE)
            /\ UNCHANGED <<dir_cache, file_cache, file_cache_size>>
            /\ ParKeep

(* The invalidation that ends the callback; the guard is dropped after it. *)
ParInvalidate(t) ==
    LET th == par.th[t]
        rc == invalidate(invalidate(RC, th.path), th.new)
    IN  /\ th.pc = "mutated"
        /\ dir_cache' = rc.dir_cache
        /\ file_cache' = rc.file_cache
        /\ file_cache_size' = rc.file_cache_size
        /\ ParReturn(t, FALSE)
        /\ UNCHANGED srv
        /\ ParKeep

InitPar == InitWith({(<<"a">> :> File(<<1>>))})

NextPar ==
    \/ \E t \in ParThreads :
          \/ ParBegin(t) \/ ParListGet(t) \/ ParListPut(t) \/ ParMutate(t)
          \/ ParFetch(t) \/ ParPut(t) \/ ParDelete(t) \/ ParInvalidate(t)
    \/ Tick

SpecPar == InitPar /\ [][NextPar]_vars

(* A thread that is inside a callback holds the lock: from the request     *)
(* that changes the server to the invalidation after it the lock is the    *)
(* thread's own.                                                           *)
CriticalHeld == \A t \in ParThreads : InCritical(t) => par.lock = t

(* While no callback is in progress and no rename has returned between its *)
(* PUT and its invalidation, the fresh cache entries are what the server   *)
(* has: no listing or body from before a mutation outlives the             *)
(* invalidation of that mutation.                                          *)
NoStaleEntrySurvives ==
    par.lock = 0 /\ ~par.partial => CachesCurrent

---------------------------------------------------------------------------
(* The arithmetic of fetch_range.  offset is a u64 that read makes from a  *)
(* non-negative i64, size a u32; the model keeps the widths in proportion: *)
(* a u64 of RangeBits bits, offsets below 2^(RangeBits-1), sizes below     *)
(* 2^SizeBits.  A debug build checks the arithmetic and panics where a     *)
(* release build wraps.                                                    *)

RangeBits == 6
SizeBits == 2
RangeOffsets == 0..(2^(RangeBits - 1) - 1)
RangeSizes == 0..(2^SizeBits - 1)
Builds == {"debug", "release"}

(* let end = offset + (size as u64) - 1; *)
range_end(offset, size, build) ==
    LET sum == offset + size
        wraps == sum >= 2^RangeBits \/ sum % 2^RangeBits = 0
    IN  IF wraps /\ build = "debug"
        THEN [panic |-> TRUE, end |-> 0]
        ELSE [panic |-> FALSE, end |-> (sum + 2^RangeBits - 1) % 2^RangeBits]

(* read calls fetch_range with an offset and a size of the kernel. *)
RangeCall ==
    \E offset \in RangeOffsets, size \in RangeSizes, build \in Builds :
        /\ calc.st = "idle"
        /\ calc' = [NoCalc EXCEPT !.st = "called", !.offset = offset, !.size = size,
                                  !.build = build]
        /\ UNCHANGED <<inode_counter, inode_to_path, path_to_inode, write_buffers,
                       fh_counter, dir_cache, file_cache, file_cache_size, cache_config,
                       now, srv, open_files, contexts, unsaved, par, track>>

(* fetch_range computes the end of the range for the Range header. *)
RangeCompute ==
    LET e == range_end(calc.offset, calc.size, calc.build)
    IN  /\ calc.st = "called"
        /\ calc' = [calc EXCEPT !.st = "computed", !.panic = e.panic, !.end = e.end]
        /\ UNCHANGED <<inode_counter, inode_to_path, path_to_inode, write_buffers,
                       fh_counter, dir_cache, file_cache, file_cache_size, cache_config,
                       now, srv, open_files, contexts, unsaved, par, track>>

(* The call is over. *)
RangeReturn ==
    /\ calc.st = "computed"
    /\ calc' = NoCalc
    /\ UNCHANGED <<inode_counter, inode_to_path, path_to_inode, write_buffers,
                   fh_counter, dir_cache, file_cache, file_cache_size, cache_config,
                   now, srv, open_files, contexts, unsaved, par, track>>

InitRange == InitWith({(<<"a">> :> File(<<1>>))})

NextRange == RangeCall \/ RangeCompute \/ RangeReturn

SpecRange == InitRange /\ [][NextRange]_vars

(* C39.  fetch_range requests exactly the inclusive byte range             *)
(* [offset, offset+size-1] and computes the end of the range without       *)
(* unsigned underflow or overflow, for every offset >= 0 and every         *)
(* size >= 0, size 0 included.                                             *)
RangeEndExact ==
    calc.st = "computed" =>
        /\ ~calc.panic
        /\ calc.end = calc.offset + calc.size - 1

(* The case of C39 that holds: the range is not the empty range at         *)
(* offset 0.                                                               *)
RangeEndExactNonEmpty ==
    calc.st = "computed" /\ calc.offset + calc.size >= 1 =>
        /\ ~calc.panic
        /\ calc.end = calc.offset + calc.size - 1

===========================================================================
